---- MODULE Spec2Model ----
(***************************************************************************)
(* Report classification and aggregation pipeline of caic-poc              *)
(* (server/lib/processing.ts): the three text classifiers and the          *)
(* aggregation reducer.                                                    *)
(*                                                                         *)
(* A JavaScript string is modelled as a sequence of one-character strings, *)
(* so that replaceAll, trim, toUpperCase, includes, startsWith and the     *)
(* \b word-boundary test are computed character by character.              *)
(* null / undefined arguments are the value Null.  A classifier result is  *)
(* a TLA+ string naming the band / compass code, or NoResult for null.     *)
(***************************************************************************)
EXTENDS Integers, Sequences, FiniteSets, TLC

VARIABLES
  elevInput,    \* mapElevation: the argument under construction / passed
  elevOther,    \* mapElevation: a second argument, a case variant of elevInput
  elevResult,   \* mapElevation(elevInput), once called
  elevOtherResult, \* mapElevation(elevOther), once called
  elevFrags,    \* number of fragments appended to elevInput so far
  elevPc,       \* "build" while the argument is assembled, "done" after the call
  aspInput,     \* mapAspect: the argument under construction / passed
  aspResult,    \* mapAspect(aspInput), once called
  aspFrags,     \* number of fragments appended to aspInput so far
  aspPc,        \* "build" while the argument is assembled, "done" after the call
  reports,      \* aggregateReports: the report list passed in
  aggregated,   \* aggregateReports: the snapshot being populated
  aggIdx,       \* aggregateReports: number of reports the loop has folded in
  aggPc,        \* "input" (list assembled), "loop", "done" (returned)
  aggCalls,     \* aggregateReports: number of calls that have returned
  aggFirst,     \* aggregateReports: the snapshot the first call returned
  instInput,    \* mapInstabilityLevel: the argument under construction / passed
  instResult,   \* mapInstabilityLevel(instInput), once called
  instFrags,    \* number of fragments appended to instInput so far
  instPc,       \* "build" while the argument is assembled, "done" after the call
  textReports,  \* collectTexts: the report list passed in
  textOut,      \* collectTexts: the three lists being filled, or Thrown
  textIdx,      \* collectTexts: number of reports the loop has visited
  textPc,       \* "input", "loop", "done" (returned), "thrown"
  cache,        \* ResponseCache: the Map from hash to {response, timestamp}
  now,          \* the clock Date.now() reads
  cacheCall,    \* ResponseCache: the latest call of set / get / clear and its outcome
  lastSet,      \* history: per hash the latest set since the latest clear
  llmPc,        \* xAI client: "idle", "awaiting" (API request in flight), "returned"
  llmCall,      \* xAI client: the call in progress or just returned
  llmResult,    \* xAI client: what the latest call resolved to
  llmPrev,      \* xAI client: the call before the current one and its result
  llmCalls,     \* xAI client: number of calls started
  clients,      \* ProgressTracker: the Map from session id to {res, sessionId}
  trkWritten,   \* per response the chunks written to it with res.write
  trkLog,       \* history: the calls made on the tracker, oldest first
  trkCall,      \* ProgressTracker: the latest call, the state it found and its result
  progressClients, \* routes: the Map from session id to {res, sessionId}
  conns,        \* routes: the SSE connections accepted so far, with their session id and whether open
  sseWritten,   \* routes: per SSE connection the chunks written to its response
  reqPc,        \* POST /api/reports: "idle", the await the handler is at, or "done"
  req,          \* POST /api/reports: the request being handled
  reqData,      \* POST /api/reports: the handler's local constants so far
  reqTrace,     \* history: what the handler has done for this request, in order
  reportData,   \* Home: the report on display, NullObject before the first one
  chatMessages, \* Home: the chat history
  isLoading,    \* Home: a report fetch is in flight
  homeProgress, \* Home: the stage of the progress state
  eventSourceOpen, \* Home: the EventSource of eventSourceRef is open
  reportFetch,  \* Home: the POST /api/reports in flight, with its session id
  chatPending,  \* Home: the POST /api/chat in flight (chatMutation.isPending), with its body
  fetchCount,   \* Home: number of report fetches started
  chatCount     \* Home: number of chat requests sent

elevVars == <<elevInput, elevOther, elevResult, elevOtherResult, elevFrags, elevPc>>
aspVars == <<aspInput, aspResult, aspFrags, aspPc>>
aggVars == <<reports, aggregated, aggIdx, aggPc, aggCalls, aggFirst>>
instVars == <<instInput, instResult, instFrags, instPc>>
textVars == <<textReports, textOut, textIdx, textPc>>
cacheVars == <<cache, now, cacheCall, lastSet>>
llmVars == <<llmPc, llmCall, llmResult, llmPrev, llmCalls>>
trkVars == <<clients, trkWritten, trkLog, trkCall>>
rtVars == <<progressClients, conns, sseWritten, reqPc, req, reqData, reqTrace>>
homeVars == <<reportData, chatMessages, isLoading, homeProgress, eventSourceOpen, reportFetch, chatPending, fetchCount, chatCount>>
vars == <<elevVars, aspVars, aggVars, instVars, textVars, cacheVars, llmVars, trkVars, rtVars, homeVars>>

\* What the operations of one area leave alone: the state of the other areas.
otherThanElev == <<aspVars, aggVars, instVars, textVars, cacheVars, llmVars, trkVars, rtVars, homeVars>>
otherThanAsp == <<elevVars, aggVars, instVars, textVars, cacheVars, llmVars, trkVars, rtVars, homeVars>>
otherThanAgg == <<elevVars, aspVars, instVars, textVars, cacheVars, llmVars, trkVars, rtVars, homeVars>>
otherThanInst == <<elevVars, aspVars, aggVars, textVars, cacheVars, llmVars, trkVars, rtVars, homeVars>>
otherThanText == <<elevVars, aspVars, aggVars, instVars, cacheVars, llmVars, trkVars, rtVars, homeVars>>
otherThanCache == <<elevVars, aspVars, aggVars, instVars, textVars, llmVars, trkVars, rtVars, homeVars>>
otherThanLlm == <<elevVars, aspVars, aggVars, instVars, textVars, trkVars, rtVars, homeVars>>
otherThanTrk == <<elevVars, aspVars, aggVars, instVars, textVars, cacheVars, llmVars, rtVars, homeVars>>
otherThanRt == <<elevVars, aspVars, aggVars, instVars, textVars, cacheVars, llmVars, trkVars, homeVars>>
otherThanHome == <<elevVars, aspVars, aggVars, instVars, textVars, cacheVars, llmVars, trkVars, rtVars>>

(***************************************************************************)
(* Bounds of the model.                                                    *)
(***************************************************************************)
MaxElevFrags == 3
MaxAspectFrags == 4
MaxReports == 2
MaxInstFrags == 3
MaxTextReports == 2
TtlMs == 2
MaxClock == 5
MaxLlmCalls == 2

(***************************************************************************)
(* JavaScript values and string primitives.                                *)
(***************************************************************************)
Null == <<"<null>">>
NoResult == "null"

LowerLetters ==
  <<"a","b","c","d","e","f","g","h","i","j","k","l","m",
    "n","o","p","q","r","s","t","u","v","w","x","y","z">>

UpperLetters ==
  <<"A","B","C","D","E","F","G","H","I","J","K","L","M",
    "N","O","P","Q","R","S","T","U","V","W","X","Y","Z">>

Whitespace == {" ", "\t", "\n"}

UpperOf ==
  [c \in {LowerLetters[i] : i \in 1..Len(LowerLetters)} |->
     UpperLetters[CHOOSE i \in 1..Len(LowerLetters) : LowerLetters[i] = c]]

LowerOf ==
  [c \in {UpperLetters[i] : i \in 1..Len(UpperLetters)} |->
     LowerLetters[CHOOSE i \in 1..Len(UpperLetters) : UpperLetters[i] = c]]

UpperChar(c) == IF c \in DOMAIN UpperOf THEN UpperOf[c] ELSE c

LowerChar(c) == IF c \in DOMAIN LowerOf THEN LowerOf[c] ELSE c

ToUpperCase(s) == [i \in 1..Len(s) |-> UpperChar(s[i])]

ToLowerCase(s) == [i \in 1..Len(s) |-> LowerChar(s[i])]

StartsWith(s, pat) ==
  /\ Len(pat) <= Len(s)
  /\ SubSeq(s, 1, Len(pat)) = pat

Includes(s, pat) ==
  \E i \in 1..(Len(s) - Len(pat) + 1) : SubSeq(s, i, i + Len(pat) - 1) = pat

RECURSIVE ReplaceAll(_, _, _)
ReplaceAll(s, pat, rep) ==
  IF s = <<>> THEN <<>>
  ELSE IF StartsWith(s, pat)
       THEN rep \o ReplaceAll(SubSeq(s, Len(pat) + 1, Len(s)), pat, rep)
       ELSE <<Head(s)>> \o ReplaceAll(Tail(s), pat, rep)

RECURSIVE TrimStart(_)
TrimStart(s) ==
  IF s # <<>> /\ Head(s) \in Whitespace THEN TrimStart(Tail(s)) ELSE s

RECURSIVE TrimEnd(_)
TrimEnd(s) ==
  IF s # <<>> /\ s[Len(s)] \in Whitespace
  THEN TrimEnd(SubSeq(s, 1, Len(s) - 1))
  ELSE s

Trim(s) == TrimEnd(TrimStart(s))

\* JavaScript truthiness of a string | null | undefined argument.
Falsy(s) == s = Null \/ s = <<>>

(***************************************************************************)
(* mapElevation                                                            *)
(***************************************************************************)
Ent62 == <<"&","#","6","2",";">>
Ent60 == <<"&","#","6","0",";">>
EntGt == <<"&","g","t",";">>
EntLt == <<"&","l","t",";">>
GtChar == <<">">>
LtChar == <<"<">>

\* Variant of Decode that knows the numeric entity forms only.
DecodeNumericOnly(elevation) ==
  ReplaceAll(ReplaceAll(elevation, Ent62, GtChar), Ent60, LtChar)

Decode(elevation) ==
  ReplaceAll(ReplaceAll(ReplaceAll(ReplaceAll(elevation,
    Ent62, GtChar), Ent60, LtChar), EntGt, GtChar), EntLt, LtChar)

\* Variant of Decoded that leaves the letter case as it is.
DecodedNoUpper(elevation) == Trim(Decode(elevation))

Decoded(elevation) == ToUpperCase(Trim(Decode(elevation)))

AboveRule(decoded) ==
  \/ Includes(decoded, <<">","T","L">>)
  \/ StartsWith(decoded, GtChar)
  \/ Includes(decoded, <<"A","T","L">>)
  \/ Includes(decoded, <<"A","B","O","V","E">>)
  \/ Includes(decoded, <<"A","L","P","I","N","E">>)

BelowRule(decoded) ==
  \/ Includes(decoded, <<"<","T","L">>)
  \/ StartsWith(decoded, LtChar)
  \/ Includes(decoded, <<"B","T","L">>)
  \/ Includes(decoded, <<"B","E","L","O","W">>)
  \/ Includes(decoded, <<"S","U","B">>)

NearRule(decoded) ==
  \/ decoded = <<"T","L">>
  \/ Includes(decoded, <<"N","T","L">>)
  \/ Includes(decoded, <<"N","E","A","R">>)
  \/ Includes(decoded, <<"T","R","E","E","L","I","N","E">>)

\* Variant of mapElevation that tests the near-treeline rule first.
mapElevationNearFirst(elevation) ==
  IF Falsy(elevation) THEN NoResult
  ELSE LET decoded == Decoded(elevation) IN
       IF NearRule(decoded) THEN "nearTreeline"
       ELSE IF AboveRule(decoded) THEN "aboveTreeline"
       ELSE IF BelowRule(decoded) THEN "belowTreeline"
       ELSE NoResult

mapElevation(elevation) ==
  IF Falsy(elevation) THEN NoResult
  ELSE LET decoded == Decoded(elevation) IN
       IF AboveRule(decoded) THEN "aboveTreeline"
       ELSE IF BelowRule(decoded) THEN "belowTreeline"
       ELSE IF NearRule(decoded) THEN "nearTreeline"
       ELSE NoResult

(***************************************************************************)
(* Arguments of mapElevation: concatenations of at most MaxElevFrags       *)
(* fragments.  The fragments are the markers of the three rules, the four  *)
(* entity forms, pieces of entities, blanks and unrelated text.            *)
(***************************************************************************)
ElevFragments ==
  { GtChar, LtChar, Ent62, Ent60, EntGt, EntLt,
    <<"&">>, <<" ">>,
    <<"T","L">>, <<"A">>, <<"B">>, <<"N">>,
    <<"A","l","p","i","n","e">>, <<"s","u","b">>,
    <<"T","r","e","e","l","i","n","e">>, <<"h","i","g","h">> }

SwapChar(c) == IF c \in DOMAIN UpperOf THEN UpperOf[c] ELSE LowerChar(c)

SwapCase(s) == [i \in 1..Len(s) |-> SwapChar(s[i])]

\* Strings that differ from s only in the case of their letters.
CaseVariants(s) == { ToUpperCase(s), ToLowerCase(s), SwapCase(s) }

ElevInit ==
  /\ elevInput = <<>>
  /\ elevOther = <<>>
  /\ elevResult = NoResult
  /\ elevOtherResult = NoResult
  /\ elevFrags = 0
  /\ elevPc = "build"

\* The caller assembles the elevation text of an avalanche observation.
ElevAppend ==
  /\ elevPc = "build"
  /\ elevFrags < MaxElevFrags
  /\ \E f \in ElevFragments :
        elevInput' = elevInput \o f
  /\ elevFrags' = elevFrags + 1
  /\ UNCHANGED <<elevOther, elevResult, elevOtherResult, elevPc>>
  /\ UNCHANGED otherThanElev

\* mapElevation is applied to the text and to a case variant of it.
ElevCall ==
  /\ elevPc = "build"
  /\ \E o \in CaseVariants(elevInput) :
        /\ elevOther' = o
        /\ elevOtherResult' = mapElevation(o)
  /\ elevResult' = mapElevation(elevInput)
  /\ elevPc' = "done"
  /\ UNCHANGED <<elevInput, elevFrags>>
  /\ UNCHANGED otherThanElev

\* mapElevation(null) / mapElevation(undefined).
ElevCallNull ==
  /\ elevPc = "build"
  /\ elevInput = <<>>
  /\ elevInput' = Null
  /\ elevOther' = Null
  /\ elevResult' = mapElevation(Null)
  /\ elevOtherResult' = mapElevation(Null)
  /\ elevPc' = "done"
  /\ UNCHANGED elevFrags
  /\ UNCHANGED otherThanElev

ElevNext == ElevAppend \/ ElevCall \/ ElevCallNull

(***************************************************************************)
(* mapAspect                                                               *)
(***************************************************************************)
Digits == {"0","1","2","3","4","5","6","7","8","9"}

\* \w of a JavaScript regular expression without the u flag: [A-Za-z0-9_].
WordChar(c) ==
  \/ c \in DOMAIN UpperOf
  \/ c \in DOMAIN LowerOf
  \/ c \in Digits
  \/ c = "_"

\* \b at the gap before position i of s (1 <= i <= Len(s) + 1): exactly one
\* of the two neighbouring positions holds a word character.
WordBoundary(s, i) ==
  LET before == i > 1 /\ WordChar(s[i - 1])
      after == i <= Len(s) /\ WordChar(s[i])
  IN before # after

\* Variant of RegexTest without the trailing \b.
RegexTestNoTrailingBoundary(upper, a) ==
  \E i \in 1..(Len(upper) - Len(a) + 1) :
     /\ WordBoundary(upper, i)
     /\ SubSeq(upper, i, i + Len(a) - 1) = a

\* new RegExp(`\\b${a}\\b`).test(upper)
RegexTest(upper, a) ==
  \E i \in 1..(Len(upper) - Len(a) + 1) :
     /\ WordBoundary(upper, i)
     /\ SubSeq(upper, i, i + Len(a) - 1) = a
     /\ WordBoundary(upper, i + Len(a))

twoLetterAspects == << <<"N","E">>, <<"N","W">>, <<"S","E">>, <<"S","W">> >>
singleLetterAspects == << <<"N">>, <<"E">>, <<"S">>, <<"W">> >>

AspectMatches(upper, a) == upper = a \/ RegexTest(upper, a)

\* The first aspect of the list that matches, as its loop returns it.
FirstMatch(upper, aspects) ==
  LET hits == { k \in 1..Len(aspects) : AspectMatches(upper, aspects[k]) }
  IN IF hits = {} THEN 0 ELSE CHOOSE k \in hits : \A j \in hits : k <= j

\* The compass code as the string the function returns.
AspectName(a) == IF Len(a) = 1 THEN a[1]
                 ELSE IF a = <<"N","E">> THEN "NE"
                 ELSE IF a = <<"N","W">> THEN "NW"
                 ELSE IF a = <<"S","E">> THEN "SE"
                 ELSE "SW"

\* Variant of mapAspect that runs the single-letter loop first.
mapAspectSingleFirst(aspect) ==
  IF Falsy(aspect) THEN NoResult
  ELSE LET upper == Trim(ToUpperCase(aspect))
           two == FirstMatch(upper, twoLetterAspects)
           one == FirstMatch(upper, singleLetterAspects)
       IN IF one > 0 THEN AspectName(singleLetterAspects[one])
          ELSE IF two > 0 THEN AspectName(twoLetterAspects[two])
          ELSE NoResult

mapAspect(aspect) ==
  IF Falsy(aspect) THEN NoResult
  ELSE LET upper == Trim(ToUpperCase(aspect))
           two == FirstMatch(upper, twoLetterAspects)
           one == FirstMatch(upper, singleLetterAspects)
       IN IF two > 0 THEN AspectName(twoLetterAspects[two])
          ELSE IF one > 0 THEN AspectName(singleLetterAspects[one])
          ELSE NoResult

(***************************************************************************)
(* Arguments of mapAspect: concatenations of at most MaxAspectFrags        *)
(* fragments: compass letters in both cases, a letter that is no compass   *)
(* code, a blank, a digit and an underscore.                               *)
(***************************************************************************)
AspectFragments ==
  { <<"N">>, <<"E">>, <<"S">>, <<"w">>, <<"N","E">>, <<"s","W">>,
    <<" ">>, <<"2">>, <<"_">>, <<"o">> }

AspInit ==
  /\ aspInput = <<>>
  /\ aspResult = NoResult
  /\ aspFrags = 0
  /\ aspPc = "build"

\* The caller assembles the aspect text of an avalanche observation.
AspAppend ==
  /\ aspPc = "build"
  /\ aspFrags < MaxAspectFrags
  /\ \E f \in AspectFragments :
        aspInput' = aspInput \o f
  /\ aspFrags' = aspFrags + 1
  /\ UNCHANGED <<aspResult, aspPc>>
  /\ UNCHANGED otherThanAsp

AspCall ==
  /\ aspPc = "build"
  /\ aspResult' = mapAspect(aspInput)
  /\ aspPc' = "done"
  /\ UNCHANGED <<aspInput, aspFrags>>
  /\ UNCHANGED otherThanAsp

\* mapAspect(null) / mapAspect(undefined).
AspCallNull ==
  /\ aspPc = "build"
  /\ aspInput = <<>>
  /\ aspInput' = Null
  /\ aspResult' = mapAspect(Null)
  /\ aspPc' = "done"
  /\ UNCHANGED aspFrags
  /\ UNCHANGED otherThanAsp

AspNext == AspAppend \/ AspCall \/ AspCallNull

(***************************************************************************)
(* mapInstabilityLevel                                                     *)
(***************************************************************************)
\* Variant that tests the keyword groups from the gravest level down.
mapInstabilityLevelGravestFirst(value) ==
  IF Falsy(value) THEN "None"
  ELSE LET lower == ToLowerCase(value) IN
       IF \/ Includes(lower, <<"s","e","v","e","r","e">>)
          \/ Includes(lower, <<"e","x","t","r","e","m","e">>)
          \/ Includes(lower, <<"w","i","d","e","s","p","r","e","a","d">>)
       THEN "Severe"
       ELSE IF \/ Includes(lower, <<"m","a","j","o","r">>)
               \/ Includes(lower, <<"h","e","a","v","y">>)
               \/ Includes(lower, <<"s","i","g","n","i","f","i","c","a","n","t">>)
       THEN "Major"
       ELSE IF \/ Includes(lower, <<"m","o","d","e","r","a","t","e">>)
               \/ Includes(lower, <<"m","e","d","i","u","m">>)
       THEN "Moderate"
       ELSE IF \/ Includes(lower, <<"m","i","n","o","r">>)
               \/ Includes(lower, <<"s","l","i","g","h","t">>)
               \/ Includes(lower, <<"l","i","g","h","t">>)
       THEN "Minor"
       ELSE "None"

mapInstabilityLevel(value) ==
  IF Falsy(value) THEN "None"
  ELSE LET lower == ToLowerCase(value) IN
       IF \/ Includes(lower, <<"n","o","n","e">>)
          \/ lower = <<"n","o">>
          \/ lower = <<>>
       THEN "None"
       ELSE IF \/ Includes(lower, <<"m","i","n","o","r">>)
               \/ Includes(lower, <<"s","l","i","g","h","t">>)
               \/ Includes(lower, <<"l","i","g","h","t">>)
       THEN "Minor"
       ELSE IF \/ Includes(lower, <<"m","o","d","e","r","a","t","e">>)
               \/ Includes(lower, <<"m","e","d","i","u","m">>)
       THEN "Moderate"
       ELSE IF \/ Includes(lower, <<"m","a","j","o","r">>)
               \/ Includes(lower, <<"h","e","a","v","y">>)
               \/ Includes(lower, <<"s","i","g","n","i","f","i","c","a","n","t">>)
       THEN "Major"
       ELSE IF \/ Includes(lower, <<"s","e","v","e","r","e">>)
               \/ Includes(lower, <<"e","x","t","r","e","m","e">>)
               \/ Includes(lower, <<"w","i","d","e","s","p","r","e","a","d">>)
       THEN "Severe"
       ELSE "None"

(***************************************************************************)
(* Arguments of mapInstabilityLevel: up to MaxInstFrags fragments, among   *)
(* them keywords of every level in mixed case, "no" (matched by equality   *)
(* only), "slight" (which contains "light"), blanks and a word that is no  *)
(* keyword.                                                                *)
(***************************************************************************)
InstFragments ==
  { <<"n","o">>, <<"N","o","n","e">>, <<"m","i","n","o","r">>,
    <<"S","l","i","g","h","t">>, <<"l","i","g","h","t">>,
    <<"M","O","D","E","R","A","T","E">>, <<"m","e","d","i","u","m">>,
    <<"m","a","j","o","r">>, <<"H","e","a","v","y">>,
    <<"s","i","g","n","i","f","i","c","a","n","t">>,
    <<"s","e","v","e","r","e">>, <<"E","x","t","r","e","m","e">>,
    <<"w","i","d","e","s","p","r","e","a","d">>,
    <<" ">>, <<"t","y","p","i","c","a","l">> }

InstInit ==
  /\ instInput = <<>>
  /\ instResult = NoResult
  /\ instFrags = 0
  /\ instPc = "build"

InstAppend ==
  /\ instPc = "build"
  /\ instFrags < MaxInstFrags
  /\ \E f \in InstFragments : instInput' = instInput \o f
  /\ instFrags' = instFrags + 1
  /\ UNCHANGED <<instResult, instPc>>
  /\ UNCHANGED otherThanInst

\* mapInstabilityLevel(instInput)
InstCall ==
  /\ instPc = "build"
  /\ instResult' = mapInstabilityLevel(instInput)
  /\ instPc' = "done"
  /\ UNCHANGED <<instInput, instFrags>>
  /\ UNCHANGED otherThanInst

\* mapInstabilityLevel(null) / mapInstabilityLevel(undefined)
InstCallNull ==
  /\ instPc = "build"
  /\ instFrags = 0
  /\ instInput' = Null
  /\ instResult' = mapInstabilityLevel(Null)
  /\ instPc' = "done"
  /\ UNCHANGED instFrags
  /\ UNCHANGED otherThanInst

InstNext == InstAppend \/ InstCall \/ InstCallNull

(***************************************************************************)
(* aggregateReports                                                        *)
(*                                                                         *)
(* A report or an observation is a record; an optional field that is       *)
(* absent (undefined) is not in the record's domain.  A text field of an   *)
(* observation may also hold null (Null).  A list or a count holding null  *)
(* takes the same branches as an absent one (?., ||, !) and is modelled as *)
(* absent.  avalanche_observations_count is an integer.                    *)
(***************************************************************************)
Has(obj, f) == f \in DOMAIN obj

\* obj.f for an optional string field.
Get(obj, f) == IF Has(obj, f) THEN obj[f] ELSE Null

ElevationBands == {"aboveTreeline", "nearTreeline", "belowTreeline"}
Aspects == {"N", "NE", "E", "SE", "S", "SW", "W", "NW"}
Levels == {"None", "Minor", "Moderate", "Major", "Severe"}

\* The snapshot as it is created, before the loop.
NewSnapshot(rs) ==
  [ totalReports |-> Len(rs),
    reportsWithAvalanches |-> 0,
    totalAvalanches |-> 0,
    avalanchesByElevation |-> [b \in ElevationBands |-> 0],
    avalanchesByAspect |-> [a \in Aspects |-> 0],
    crackingCounts |-> [l \in Levels |-> 0],
    collapsingCounts |-> [l \in Levels |-> 0] ]

\* Variant of AvalancheCount that reads avalanche_observations_count alone.
AvalancheCountFieldOnly(report) ==
  IF Has(report, "avalanche_observations_count")
  THEN report.avalanche_observations_count
  ELSE 0

\* Variant of AvalancheCount that prefers avalanche_observations_count.
AvalancheCountFieldFirst(report) ==
  IF Has(report, "avalanche_observations_count")
     /\ report.avalanche_observations_count # 0
  THEN report.avalanche_observations_count
  ELSE IF Has(report, "avalanche_observations")
       THEN Len(report.avalanche_observations)
       ELSE 0

\* report.avalanche_observations?.length || report.avalanche_observations_count || 0
AvalancheCount(report) ==
  IF Has(report, "avalanche_observations")
     /\ Len(report.avalanche_observations) # 0
  THEN Len(report.avalanche_observations)
  ELSE IF Has(report, "avalanche_observations_count")
          /\ report.avalanche_observations_count # 0
       THEN report.avalanche_observations_count
       ELSE 0

\* report.avalanche_observations || []   (likewise for snowpack_observations)
ListOrEmpty(report, f) == IF Has(report, f) THEN report[f] ELSE <<>>

\* Variant of FoldAvalanche that files an unclassifiable elevation under
\* nearTreeline.
FoldAvalancheDefaultNear(agg, avy) ==
  LET elevation == mapElevation(Get(avy, "elevation"))
      aspect == mapAspect(Get(avy, "aspect"))
      a1 == IF elevation # NoResult
            THEN [agg EXCEPT !.avalanchesByElevation[elevation] = @ + 1]
            ELSE [agg EXCEPT !.avalanchesByElevation["nearTreeline"] = @ + 1]
  IN IF aspect # NoResult
     THEN [a1 EXCEPT !.avalanchesByAspect[aspect] = @ + 1]
     ELSE a1

\* The body of the loop over the avalanche observations.
FoldAvalanche(agg, avy) ==
  LET elevation == mapElevation(Get(avy, "elevation"))
      aspect == mapAspect(Get(avy, "aspect"))
      a1 == IF elevation # NoResult
            THEN [agg EXCEPT !.avalanchesByElevation[elevation] = @ + 1]
            ELSE agg
  IN IF aspect # NoResult
     THEN [a1 EXCEPT !.avalanchesByAspect[aspect] = @ + 1]
     ELSE a1

\* The body of the loop over the snowpack observations.
FoldSnowpack(agg, obs) ==
  LET crackingLevel == mapInstabilityLevel(Get(obs, "cracking"))
      collapsingLevel == mapInstabilityLevel(Get(obs, "collapsing"))
  IN [agg EXCEPT !.crackingCounts[crackingLevel] = @ + 1,
                 !.collapsingCounts[collapsingLevel] = @ + 1]

RECURSIVE FoldAvalanches(_, _)
FoldAvalanches(agg, list) ==
  IF list = <<>> THEN agg
  ELSE FoldAvalanches(FoldAvalanche(agg, Head(list)), Tail(list))

RECURSIVE FoldSnowpacks(_, _)
FoldSnowpacks(agg, list) ==
  IF list = <<>> THEN agg
  ELSE FoldSnowpacks(FoldSnowpack(agg, Head(list)), Tail(list))

\* Variant of NoSnowpackDefault that tests for the absent field only.
NoSnowpackDefaultAbsentOnly(agg, report) ==
  IF ~Has(report, "snowpack_observations")
  THEN [agg EXCEPT !.crackingCounts["None"] = @ + 1,
                   !.collapsingCounts["None"] = @ + 1]
  ELSE agg

\* if (!report.snowpack_observations || report.snowpack_observations.length === 0)
NoSnowpackDefault(agg, report) ==
  IF ~Has(report, "snowpack_observations")
     \/ Len(report.snowpack_observations) = 0
  THEN [agg EXCEPT !.crackingCounts["None"] = @ + 1,
                   !.collapsingCounts["None"] = @ + 1]
  ELSE agg

\* Variant of CountAvalanches that counts every report as one with avalanches.
CountAvalanchesEveryReport(agg, report) ==
  LET avalancheCount == AvalancheCount(report) IN
  [agg EXCEPT !.reportsWithAvalanches = IF avalancheCount >= 0 THEN @ + 1 ELSE @,
              !.totalAvalanches = @ + avalancheCount]

\* Variant of CountAvalanches that assigns totalAvalanches instead of adding.
CountAvalanchesAssign(agg, report) ==
  LET avalancheCount == AvalancheCount(report) IN
  [agg EXCEPT !.reportsWithAvalanches = IF avalancheCount > 0 THEN @ + 1 ELSE @,
              !.totalAvalanches = avalancheCount]

\* The head of the loop body: avalancheCount and the two report counters.
CountAvalanches(agg, report) ==
  LET avalancheCount == AvalancheCount(report) IN
  [agg EXCEPT !.reportsWithAvalanches = IF avalancheCount > 0 THEN @ + 1 ELSE @,
              !.totalAvalanches = @ + avalancheCount]

\* One iteration of for (const report of reports).
FoldReport(agg, report) ==
  LET a1 == CountAvalanches(agg, report)
      a2 == FoldAvalanches(a1, ListOrEmpty(report, "avalanche_observations"))
      a3 == FoldSnowpacks(a2, ListOrEmpty(report, "snowpack_observations"))
  IN NoSnowpackDefault(a3, report)

RECURSIVE FoldReports(_, _)
FoldReports(agg, rs) ==
  IF rs = <<>> THEN agg
  ELSE FoldReports(FoldReport(agg, Head(rs)), Tail(rs))

aggregateReports(rs) == FoldReports(NewSnapshot(rs), rs)

(***************************************************************************)
(* Report lists: at most MaxReports reports, each the union of one sample  *)
(* of the avalanche fields and one sample of the snowpack field.  The id   *)
(* and the other fields aggregateReports never reads are left out.         *)
(***************************************************************************)
AvalancheSamples ==
  { << >>,
    [avalanche_observations_count |-> 2],
    [avalanche_observations |-> <<>>, avalanche_observations_count |-> -1],
    [avalanche_observations |-> << [elevation |-> <<">","T","L">>, aspect |-> <<"N">>] >>],
    [avalanche_observations |->
       << [elevation |-> <<"u","n","k","n","o","w","n">>, aspect |-> Null],
          [elevation |-> <<"&","l","t",";","T","L">>, aspect |-> <<"N","W"," ","s","l","o","p","e">>] >>,
     avalanche_observations_count |-> 5],
    [avalanche_observations |->
       << [elevation |-> <<"T","L">>, aspect |-> <<"n","o","r","t","h","e","a","s","t"," ","f","a","c","i","n","g">>] >>,
     avalanche_observations_count |-> 0] }

SnowpackSamples ==
  { << >>,
    [snowpack_observations |-> <<>>],
    [snowpack_observations |-> << [cracking |-> <<"m","i","n","o","r">>, collapsing |-> <<"n","o","n","e">>] >>],
    [snowpack_observations |->
       << [cracking |-> <<"M","o","d","e","r","a","t","e"," ","c","r","a","c","k","i","n","g">>,
           collapsing |-> Null],
          [cracking |-> <<"w","i","d","e","s","p","r","e","a","d">>, collapsing |-> <<"h","e","a","v","y">>] >>] }

ReportSamples == { a @@ sn : a \in AvalancheSamples, sn \in SnowpackSamples }

AggInit ==
  /\ reports = <<>>
  /\ aggregated = NewSnapshot(<<>>)
  /\ aggIdx = 0
  /\ aggPc = "input"
  /\ aggCalls = 0
  /\ aggFirst = NewSnapshot(<<>>)

\* The caller (the fetch of one day's reports) delivers one more report.
AggAddReport ==
  /\ aggPc = "input"
  /\ Len(reports) < MaxReports
  /\ \E r \in ReportSamples : reports' = Append(reports, r)
  /\ UNCHANGED <<aggregated, aggIdx, aggPc, aggCalls, aggFirst>>
  /\ UNCHANGED otherThanAgg

\* Variant of AggStart with the snapshot kept in a variable of the module
\* that outlives the call: a later call goes on counting where the previous
\* one stopped.
AggStartSharedSnapshot ==
  /\ aggPc = "input" \/ (aggPc = "done" /\ aggCalls < 2)
  /\ aggregated' = [aggregated EXCEPT !.totalReports = Len(reports)]
  /\ aggIdx' = 0
  /\ aggPc' = "loop"
  /\ UNCHANGED <<reports, aggCalls, aggFirst>>
  /\ UNCHANGED otherThanAgg

\* aggregateReports(reports) is entered, for the first time or once more on
\* the same list: the snapshot is created.
AggStart ==
  /\ aggPc = "input" \/ (aggPc = "done" /\ aggCalls < 2)
  /\ aggregated' = NewSnapshot(reports)
  /\ aggIdx' = 0
  /\ aggPc' = "loop"
  /\ UNCHANGED <<reports, aggCalls, aggFirst>>
  /\ UNCHANGED otherThanAgg

\* One iteration of the loop over the reports.
AggFold ==
  /\ aggPc = "loop"
  /\ aggIdx < Len(reports)
  /\ aggregated' = FoldReport(aggregated, reports[aggIdx + 1])
  /\ aggIdx' = aggIdx + 1
  /\ UNCHANGED <<reports, aggPc, aggCalls, aggFirst>>
  /\ UNCHANGED otherThanAgg

\* return aggregated
AggReturn ==
  /\ aggPc = "loop"
  /\ aggIdx = Len(reports)
  /\ aggPc' = "done"
  /\ aggCalls' = aggCalls + 1
  /\ aggFirst' = IF aggCalls = 0 THEN aggregated ELSE aggFirst
  /\ UNCHANGED <<reports, aggregated, aggIdx>>
  /\ UNCHANGED otherThanAgg

AggNext == AggAddReport \/ AggStart \/ AggFold \/ AggReturn

\* aggregateReports(reports) is entered once.
AggStartOnce == aggCalls = 0 /\ AggStart

\* One call of aggregateReports on a list.
AggOnceNext == AggAddReport \/ AggStartOnce \/ AggFold \/ AggReturn

(***************************************************************************)
(* collectTexts                                                            *)
(*                                                                         *)
(* A field of a report is a string, absent (not in the record's domain) or *)
(* null (Null, NullObject for a detail, NullList for a list).  Reading a   *)
(* property of null or undefined throws a TypeError, which ends the call:  *)
(* the outcome of the call is then Thrown instead of the three lists.      *)
(***************************************************************************)
TypeError == <<"<TypeError>">>
Thrown == [error |-> TypeError]

\* null / undefined where an object is expected (snowpack_detail,
\* weather_detail).
NullObject == [null |-> TRUE]

\* null / undefined where a list of observations is expected.
NullList == << NullObject >>

\* obj.f for an optional object field.
GetObject(obj, f) == IF Has(obj, f) THEN obj[f] ELSE NullObject

\* obj.f for an optional list field.
GetList(obj, f) == IF Has(obj, f) THEN obj[f] ELSE NullList

\* obj.f : throws when obj is null or undefined.
Member(obj, f) == IF obj = NullObject THEN TypeError ELSE Get(obj, f)

\* Variant of obj?.f that reads the property without the null test: obj.f
OptionalMemberUnguarded(obj, f) ==
  IF obj = NullObject THEN TypeError ELSE Get(obj, f)

\* obj?.f
OptionalMember(obj, f) == IF obj = NullObject THEN Null ELSE Get(obj, f)

\* a || b
OrElse(a, b) == IF Falsy(a) THEN b ELSE a

\* Variant of pushIfPresent that pushes the text as it came, untrimmed.
pushIfPresentUntrimmed(arr, text) ==
  IF arr = TypeError \/ text = TypeError THEN TypeError
  ELSE LET trimmed == IF text = Null THEN Null ELSE Trim(text)
       IN IF Falsy(trimmed) THEN arr ELSE Append(arr, text)

pushIfPresent(arr, text) ==
  IF arr = TypeError \/ text = TypeError THEN TypeError
  ELSE LET trimmed == IF text = Null THEN Null ELSE Trim(text)
       IN IF Falsy(trimmed) THEN arr ELSE Append(arr, trimmed)

RECURSIVE PushComments(_, _)
PushComments(arr, observations) ==
  IF observations = <<>> THEN arr
  ELSE PushComments(pushIfPresent(arr, Member(Head(observations), "comments")),
                    Tail(observations))

\* for (const obs of observations || []) pushIfPresent(arr, obs.comments)
extractComments(arr, observations) ==
  PushComments(arr, IF observations = NullList THEN <<>> ELSE observations)

\* Variant that reads description where the code reads observation_summary
\* first: the description wins when both are there.
ObservationTextDescriptionFirst(report) ==
  OrElse(Get(report, "description"), Get(report, "observation_summary"))

\* report.observation_summary || report.description
ObservationText(report) ==
  OrElse(Get(report, "observation_summary"), Get(report, "description"))

\* Variant of the loop body that extracts the comments before the detail
\* description.
CollectReportCommentsFirst(out, report) ==
  LET observations == pushIfPresent(out.observations, ObservationText(report))
      snowpack ==
        pushIfPresent(extractComments(out.snowpack, GetList(report, "snowpack_observations")),
                      OptionalMember(GetObject(report, "snowpack_detail"), "description"))
      weather ==
        pushIfPresent(extractComments(out.weather, GetList(report, "weather_observations")),
                      OptionalMember(GetObject(report, "weather_detail"), "description"))
  IN IF TypeError \in {observations, snowpack, weather}
     THEN Thrown
     ELSE [observations |-> observations, snowpack |-> snowpack, weather |-> weather]

\* The body of the loop over the reports.
CollectReport(out, report) ==
  LET observations == pushIfPresent(out.observations, ObservationText(report))
      snowpack ==
        extractComments(
          pushIfPresent(out.snowpack,
                        OptionalMember(GetObject(report, "snowpack_detail"), "description")),
          GetList(report, "snowpack_observations"))
      weather ==
        extractComments(
          pushIfPresent(out.weather,
                        OptionalMember(GetObject(report, "weather_detail"), "description")),
          GetList(report, "weather_observations"))
  IN IF TypeError \in {observations, snowpack, weather}
     THEN Thrown
     ELSE [observations |-> observations, snowpack |-> snowpack, weather |-> weather]

NoTexts == [observations |-> <<>>, snowpack |-> <<>>, weather |-> <<>>]

(***************************************************************************)
(* Report lists for collectTexts: at most MaxTextReports reports.  A       *)
(* report is either one that carries observation text alone, in every      *)
(* combination of a summary / description that is a text, a padded text,   *)
(* empty, blank, null or absent, or one that carries snowpack and weather  *)
(* fields.                                                                 *)
(***************************************************************************)
ObservationTextSamples ==
  { << >>,
    [observation_summary |-> <<"S","u","m">>],
    [description |-> <<" ","D","e","s","c","\t">>],
    [observation_summary |-> <<" ","S","u","m"," ">>, description |-> <<"D","e","s","c">>],
    [observation_summary |-> <<>>, description |-> <<"D","e","s","c">>],
    [observation_summary |-> <<" ","\t">>, description |-> <<"D","e","s","c">>],
    [observation_summary |-> Null, description |-> <<"D","e","s","c">>],
    [observation_summary |-> <<"S","u","m">>, description |-> Null],
    [observation_summary |-> Null, description |-> Null],
    [observation_summary |-> <<>>, description |-> <<>>] }

SnowpackTextSamples ==
  { << >>,
    [snowpack_detail |-> NullObject, snowpack_observations |-> NullList],
    [snowpack_detail |-> [description |-> <<" ","S","l","a","b"," ">>],
     snowpack_observations |->
       << [comments |-> <<"c","1">>], [comments |-> <<" ">>], << >>, [comments |-> <<"c","2","\n">>] >>],
    [snowpack_detail |-> [description |-> Null],
     snowpack_observations |-> << [comments |-> Null], [comments |-> <<"c","3">>] >>],
    [snowpack_detail |-> << >>, snowpack_observations |-> <<>>],
    [snowpack_observations |-> << [comments |-> <<"c","1">>] >>] }

WeatherTextSamples ==
  { << >>,
    [weather_detail |-> NullObject, weather_observations |-> NullList],
    [weather_detail |-> [description |-> <<"C","l","e","a","r">>],
     weather_observations |-> << [comments |-> <<>>], [comments |-> <<" ","w","1">>], [comments |-> <<"w","2">>] >>] }

TextReportSamples ==
  ObservationTextSamples
    \cup { [observation_summary |-> <<"S","u","m">>] @@ sn @@ w :
             sn \in SnowpackTextSamples, w \in WeatherTextSamples }

TextInit ==
  /\ textReports = <<>>
  /\ textOut = NoTexts
  /\ textIdx = 0
  /\ textPc = "input"

\* The caller delivers one more report.
TextAddReport ==
  /\ textPc = "input"
  /\ Len(textReports) < MaxTextReports
  /\ \E r \in TextReportSamples : textReports' = Append(textReports, r)
  /\ UNCHANGED <<textOut, textIdx, textPc>>
  /\ UNCHANGED otherThanText

\* collectTexts(reports) is entered: the three lists are created empty.
TextStart ==
  /\ textPc = "input"
  /\ textOut' = NoTexts
  /\ textIdx' = 0
  /\ textPc' = "loop"
  /\ UNCHANGED textReports
  /\ UNCHANGED otherThanText

\* One iteration of the loop over the reports; a TypeError ends the call.
TextCollect ==
  /\ textPc = "loop"
  /\ textIdx < Len(textReports)
  /\ textOut' = CollectReport(textOut, textReports[textIdx + 1])
  /\ textIdx' = textIdx + 1
  /\ textPc' = IF textOut' = Thrown THEN "thrown" ELSE "loop"
  /\ UNCHANGED textReports
  /\ UNCHANGED otherThanText

\* return { observations, snowpack, weather }
TextReturn ==
  /\ textPc = "loop"
  /\ textIdx = Len(textReports)
  /\ textPc' = "done"
  /\ UNCHANGED <<textReports, textOut, textIdx>>
  /\ UNCHANGED otherThanText

TextNext == TextAddReport \/ TextStart \/ TextCollect \/ TextReturn

(***************************************************************************)
(* The five functions of the module called on their edge inputs: the       *)
(* classifiers on null / undefined, the empty string, whitespace-only      *)
(* strings and other strings; aggregateReports and collectTexts on the     *)
(* report lists above.  One function is exercised per behaviour.           *)
(***************************************************************************)
EdgeInputs ==
  { Null, <<>>, <<" ">>, <<" ","\t","\n"," ">>, <<"T","L">>, <<">","T","L">>, <<" ","N"," ">>, <<"m","i","n","o","r">>, <<"n","o">>,
    <<"u","n","k","n","o","w","n">>, <<"&","#","6","0",";">> }

\* mapElevation(x)
ElevCallOn ==
  /\ elevPc = "build"
  /\ elevFrags = 0
  /\ \E x \in EdgeInputs :
       /\ elevInput' = x
       /\ elevOther' = x
       /\ elevResult' = mapElevation(x)
       /\ elevOtherResult' = mapElevation(x)
  /\ elevPc' = "done"
  /\ UNCHANGED elevFrags
  /\ UNCHANGED otherThanElev

\* mapAspect(x)
AspCallOn ==
  /\ aspPc = "build"
  /\ aspFrags = 0
  /\ \E x \in EdgeInputs :
       /\ aspInput' = x
       /\ aspResult' = mapAspect(x)
  /\ aspPc' = "done"
  /\ UNCHANGED aspFrags
  /\ UNCHANGED otherThanAsp

\* mapInstabilityLevel(x)
InstCallOn ==
  /\ instPc = "build"
  /\ instFrags = 0
  /\ \E x \in EdgeInputs :
       /\ instInput' = x
       /\ instResult' = mapInstabilityLevel(x)
  /\ instPc' = "done"
  /\ UNCHANGED instFrags
  /\ UNCHANGED otherThanInst

ElevIdle == elevPc = "build" /\ elevFrags = 0
AspIdle == aspPc = "build" /\ aspFrags = 0
InstIdle == instPc = "build" /\ instFrags = 0
AggIdle == aggPc = "input" /\ reports = <<>>
TextIdle == textPc = "input" /\ textReports = <<>>

CoreNext ==
  \/ AspIdle /\ InstIdle /\ AggIdle /\ TextIdle /\ ElevCallOn
  \/ ElevIdle /\ InstIdle /\ AggIdle /\ TextIdle /\ AspCallOn
  \/ ElevIdle /\ AspIdle /\ AggIdle /\ TextIdle /\ InstCallOn
  \/ ElevIdle /\ AspIdle /\ InstIdle /\ TextIdle /\ AggNext
  \/ ElevIdle /\ AspIdle /\ InstIdle /\ AggIdle /\ TextNext

(***************************************************************************)
(* ResponseCache (server/lib/cache.ts)                                     *)
(*                                                                         *)
(* The Map is a function whose domain is the set of keys it holds.  Time   *)
(* is the value of the clock in units of which the TTL of the cache is     *)
(* TtlMs; the clock advances between calls and never within one.           *)
(***************************************************************************)
\* Variant of Fresh with the TTL bound included.
FreshInclusive(entry, at) == at - entry.timestamp <= TtlMs

\* Date.now() - cached.timestamp < this.ttlMs
Fresh(entry, at) == at - entry.timestamp < TtlMs

\* The value get(hash) returns at time `at`.
getResult(map, hash, at) ==
  IF hash \in DOMAIN map /\ Fresh(map[hash], at)
  THEN map[hash].response
  ELSE Null

\* The Map after get(hash) at time `at`: an entry that is no longer fresh is
\* deleted.
afterGet(map, hash, at) ==
  IF hash \in DOMAIN map /\ ~Fresh(map[hash], at)
  THEN [h \in DOMAIN map \ {hash} |-> map[h]]
  ELSE map

\* The Map after set(hash, response) at time `at`.
afterSet(map, hash, response, at) ==
  [h \in DOMAIN map \cup {hash} |->
     IF h = hash THEN [response |-> response, timestamp |-> at] ELSE map[h]]

\* The Map after clear().
EmptyMap == [h \in {} |-> [response |-> <<>>, timestamp |-> 0]]

size(map) == Cardinality(DOMAIN map)

Hashes == {"h1", "h2"}
Responses == { <<"a">>, <<"b">>, <<>> }

CacheInit ==
  /\ cache = EmptyMap
  /\ now = 0
  /\ cacheCall = [op |-> "none"]
  /\ lastSet = EmptyMap

\* cache.set(hash, response)
CacheSet ==
  /\ \E hash \in Hashes, response \in Responses :
       /\ cache' = afterSet(cache, hash, response, now)
       /\ lastSet' = afterSet(lastSet, hash, response, now)
       /\ cacheCall' = [op |-> "set", hash |-> hash, at |-> now]
  /\ UNCHANGED now
  /\ UNCHANGED otherThanCache

\* cache.get(hash)
CacheGet ==
  /\ \E hash \in Hashes :
       /\ cache' = afterGet(cache, hash, now)
       /\ cacheCall' = [op |-> "get", hash |-> hash, at |-> now,
                        result |-> getResult(cache, hash, now),
                        held |-> hash \in DOMAIN cache,
                        sizeBefore |-> size(cache)]
  /\ UNCHANGED <<now, lastSet>>
  /\ UNCHANGED otherThanCache

\* cache.clear()
CacheClear ==
  /\ cache' = EmptyMap
  /\ lastSet' = EmptyMap
  /\ cacheCall' = [op |-> "clear", at |-> now]
  /\ UNCHANGED now
  /\ UNCHANGED otherThanCache

\* Time passes.
Tick ==
  /\ now < MaxClock
  /\ now' = now + 1
  /\ UNCHANGED <<cache, cacheCall, lastSet>>
  /\ UNCHANGED otherThanCache

CacheNext == CacheSet \/ CacheGet \/ CacheClear \/ Tick

(***************************************************************************)
(* xAI client (server/lib/xai.ts): synthesizeSummary and chatWithContext.  *)
(*                                                                         *)
(* The calls are issued one after the other.  A call that reaches the API  *)
(* is two steps, up to the await and from the API's answer on; time may    *)
(* pass in between.  The API either resolves with a message content (a     *)
(* text, the empty string or null) or rejects.  The cache is xaiCache,     *)
(* written by synthesizeSummary alone.  At most MaxLlmCalls calls are      *)
(* followed.                                                               *)
(***************************************************************************)
SliceLimit == 50

Separator == <<"\n","-","-","-","\n">>

\* Variant of Slice that keeps every text.
SliceNothing(texts) == texts

\* texts.slice(0, 50)
Slice(texts) ==
  SubSeq(texts, 1, IF Len(texts) < SliceLimit THEN Len(texts) ELSE SliceLimit)

\* Array.prototype.join
RECURSIVE Join(_, _)
Join(texts, sep) ==
  IF texts = <<>> THEN <<>>
  ELSE IF Len(texts) = 1 THEN texts[1]
  ELSE texts[1] \o sep \o Join(Tail(texts), sep)

\* xaiCache.hashPayload({type, category, texts}): SHA-256 of the JSON text,
\* taken as free of collisions: the key is the payload it is computed from.
hashPayload(payload) == << payload.type, payload.category, payload.texts >>

CacheKey(category, texts) ==
  hashPayload([type |-> "synthesize", category |-> category,
               texts |-> Join(Slice(texts), Separator)])

NoDataMessage(category) ==
  <<"N","o"," ">> \o ToLowerCase(category) \o <<" ","d","a","t","a"," ","a","v","a","i","l","a","b","l","e"," ","f","o","r"," ","t","h","i","s"," ","d","a","t","e",".">>

UnableMessage(category) ==
  <<"U","n","a","b","l","e"," ","t","o"," ","s","y","n","t","h","e","s","i","z","e"," ">> \o ToLowerCase(category) \o <<" ","s","u","m","m","a","r","y",".">>

ErrorMessage(category) ==
  <<"E","r","r","o","r"," ","g","e","n","e","r","a","t","i","n","g"," ">> \o ToLowerCase(category) \o <<" ","s","u","m","m","a","r","y","."," ","P","l","e","a","s","e"," ","t","r","y"," ","a","g","a","i","n",".">>

NoReplyMessage == <<"I"," ","c","o","u","l","d","n","'","t"," ","g","e","n","e","r","a","t","e"," ","a"," ","r","e","s","p","o","n","s","e","."," ","P","l","e","a","s","e"," ","t","r","y"," ","a","g","a","i","n",".">>

ChatErrorMessage == <<"E","r","r","o","r"," ","p","r","o","c","e","s","s","i","n","g"," ","y","o","u","r"," ","q","u","e","s","t","i","o","n","."," ","P","l","e","a","s","e"," ","t","r","y"," ","a","g","a","i","n",".">>

Categories == { <<"S","n","o","w","p","a","c","k">>, <<"W","e","a","t","h","e","r">> }
TextLists == { <<>>, << <<"a">> >>, << <<"a">>, <<"b">> >> }
Contents == { Null, <<>>, <<"S","1">> }

NoCall == [fn |-> "none"]

LlmInit ==
  /\ llmPc = "idle"
  /\ llmCall = NoCall
  /\ llmResult = [none |-> TRUE]
  /\ llmPrev = [call |-> NoCall, result |-> [none |-> TRUE]]
  /\ llmCalls = 0

\* A call is entered once the one before it has returned.
CallBegins ==
  /\ llmPc \in {"idle", "returned"}
  /\ llmCalls < MaxLlmCalls
  /\ llmCalls' = llmCalls + 1
  /\ llmPrev' = [call |-> llmCall, result |-> llmResult]

\* The user message of the API request: the prompt ends with combinedText.
UserPrompt(texts) == Join(Slice(texts), Separator)

\* The body of synthesizeSummary(client, texts, category) up to its return or
\* its await.
SynthEnter(category, texts) ==
  LET key == CacheKey(category, texts)
      cached == getResult(cache, key, now)
      call == [fn |-> "synthesizeSummary", category |-> category,
               texts |-> texts, key |-> key, startedAt |-> now,
               cacheBefore |-> cache]
  IN IF Len(texts) = 0
     THEN /\ llmResult' = [summary |-> NoDataMessage(category), cached |-> FALSE]
          /\ llmCall' = call @@ [outcome |-> "empty", apiCalls |-> 0, endedAt |-> now]
          /\ llmPc' = "returned"
          /\ UNCHANGED cache
     ELSE IF ~Falsy(cached)
     THEN /\ llmResult' = [summary |-> cached, cached |-> TRUE]
          /\ llmCall' = call @@ [outcome |-> "hit", apiCalls |-> 0, endedAt |-> now]
          /\ llmPc' = "returned"
          /\ cache' = afterGet(cache, key, now)
     ELSE /\ llmCall' = call @@ [outcome |-> "pending", apiCalls |-> 1, endedAt |-> now,
                                 prompt |-> UserPrompt(texts)]
          /\ llmPc' = "awaiting"
          /\ cache' = afterGet(cache, key, now)
          /\ UNCHANGED llmResult

\* synthesizeSummary(client, texts, category), up to its return or its await.
SynthStart ==
  /\ CallBegins
  /\ \E category \in Categories, texts \in TextLists : SynthEnter(category, texts)
  /\ UNCHANGED <<now, cacheCall, lastSet>>
  /\ UNCHANGED otherThanLlm

\* Text lists around the limit of 50: SliceLimit - 1, SliceLimit and more
\* entries, equal or different within the first SliceLimit and beyond.
Repeated(t, n) == [i \in 1..n |-> t]

LongTextLists ==
  { Repeated(<<"a">>, SliceLimit - 1),
    Repeated(<<"a">>, SliceLimit),
    Repeated(<<"a">>, SliceLimit) \o << <<"x">> >>,
    Repeated(<<"a">>, SliceLimit) \o << <<"y">>, <<"z">> >>,
    Repeated(<<"a">>, SliceLimit - 1) \o << <<"b">>, <<"x">> >> }

\* synthesizeSummary called with a long text list.
SynthStartLong ==
  /\ CallBegins
  /\ \E texts \in LongTextLists : SynthEnter(<<"O","b","s","e","r","v","a","t","i","o","n">>, texts)
  /\ UNCHANGED <<now, cacheCall, lastSet>>
  /\ UNCHANGED otherThanLlm

\* Variant of SynthResolve that returns the summary without caching it.
SynthResolveNoStore ==
  /\ llmPc = "awaiting"
  /\ llmCall.fn = "synthesizeSummary"
  /\ \E content \in Contents :
       llmResult' = [summary |-> OrElse(content, UnableMessage(llmCall.category)),
                     cached |-> FALSE]
  /\ llmCall' = [llmCall EXCEPT !.outcome = "resolved", !.endedAt = now]
  /\ llmPc' = "returned"
  /\ UNCHANGED <<llmPrev, llmCalls>>
  /\ UNCHANGED cacheVars
  /\ UNCHANGED otherThanLlm

\* Variant of SynthResolve that caches and returns the content as it came.
SynthResolveNoFallback ==
  /\ llmPc = "awaiting"
  /\ llmCall.fn = "synthesizeSummary"
  /\ \E content \in Contents :
       /\ cache' = afterSet(cache, llmCall.key, content, now)
       /\ lastSet' = afterSet(lastSet, llmCall.key, content, now)
       /\ llmResult' = [summary |-> content, cached |-> FALSE]
       /\ llmCall' = [noContent |-> content \in {Null, <<>>}]
                        @@ [llmCall EXCEPT !.outcome = "resolved", !.endedAt = now]
  /\ llmPc' = "returned"
  /\ UNCHANGED <<now, cacheCall, llmPrev, llmCalls>>
  /\ UNCHANGED otherThanLlm

\* The API resolves: the content, or the fallback text for a null or empty
\* content, is cached and returned.
SynthResolve ==
  /\ llmPc = "awaiting"
  /\ llmCall.fn = "synthesizeSummary"
  /\ \E content \in Contents :
       LET summary == OrElse(content, UnableMessage(llmCall.category))
       IN /\ cache' = afterSet(cache, llmCall.key, summary, now)
          /\ lastSet' = afterSet(lastSet, llmCall.key, summary, now)
          /\ llmResult' = [summary |-> summary, cached |-> FALSE]
          /\ llmCall' = [noContent |-> content \in {Null, <<>>}]
                           @@ [llmCall EXCEPT !.outcome = "resolved", !.endedAt = now]
  /\ llmPc' = "returned"
  /\ UNCHANGED <<now, cacheCall, llmPrev, llmCalls>>
  /\ UNCHANGED otherThanLlm

\* Variant of SynthReject that caches the error text it returns.
SynthRejectCachesError ==
  /\ llmPc = "awaiting"
  /\ llmCall.fn = "synthesizeSummary"
  /\ llmResult' = [summary |-> ErrorMessage(llmCall.category), cached |-> FALSE]
  /\ cache' = afterSet(cache, llmCall.key, ErrorMessage(llmCall.category), now)
  /\ lastSet' = afterSet(lastSet, llmCall.key, ErrorMessage(llmCall.category), now)
  /\ llmCall' = [llmCall EXCEPT !.outcome = "rejected", !.endedAt = now]
  /\ llmPc' = "returned"
  /\ UNCHANGED <<now, cacheCall, llmPrev, llmCalls>>
  /\ UNCHANGED otherThanLlm

\* The API rejects: the catch block returns the error text.
SynthReject ==
  /\ llmPc = "awaiting"
  /\ llmCall.fn = "synthesizeSummary"
  /\ llmResult' = [summary |-> ErrorMessage(llmCall.category), cached |-> FALSE]
  /\ llmCall' = [llmCall EXCEPT !.outcome = "rejected", !.endedAt = now]
  /\ llmPc' = "returned"
  /\ UNCHANGED <<llmPrev, llmCalls>>
  /\ UNCHANGED cacheVars
  /\ UNCHANGED otherThanLlm

\* chatWithContext(client, message, context, summaries), up to its await.
ChatStart ==
  /\ CallBegins
  /\ llmCall' = [fn |-> "chatWithContext", outcome |-> "pending", apiCalls |-> 1,
                 startedAt |-> now, endedAt |-> now]
  /\ llmPc' = "awaiting"
  /\ UNCHANGED llmResult
  /\ UNCHANGED cacheVars
  /\ UNCHANGED otherThanLlm

ChatResolve ==
  /\ llmPc = "awaiting"
  /\ llmCall.fn = "chatWithContext"
  /\ \E content \in Contents :
       llmResult' = [reply |-> OrElse(content, NoReplyMessage)]
  /\ llmCall' = [llmCall EXCEPT !.outcome = "resolved", !.endedAt = now]
  /\ llmPc' = "returned"
  /\ UNCHANGED <<llmPrev, llmCalls>>
  /\ UNCHANGED cacheVars
  /\ UNCHANGED otherThanLlm

ChatReject ==
  /\ llmPc = "awaiting"
  /\ llmCall.fn = "chatWithContext"
  /\ llmResult' = [reply |-> ChatErrorMessage]
  /\ llmCall' = [llmCall EXCEPT !.outcome = "rejected", !.endedAt = now]
  /\ llmPc' = "returned"
  /\ UNCHANGED <<llmPrev, llmCalls>>
  /\ UNCHANGED cacheVars
  /\ UNCHANGED otherThanLlm

LlmNext ==
  \/ SynthStart \/ SynthResolve \/ SynthReject
  \/ ChatStart \/ ChatResolve \/ ChatReject
  \/ Tick

\* synthesizeSummary on long text lists alone.
SliceNext == SynthStartLong \/ SynthResolve \/ SynthReject

(***************************************************************************)
(* ProgressTracker (server/lib/progress.ts): the registry of SSE clients.  *)
(* A Map is a function whose domain is the set of its keys.                *)
(***************************************************************************)
MaxTrackerOps == 4

SessionIds == { "session-1", "session-2" }

MockResponses == { "res1", "res2" }

\* new Map()
NoClients == [id \in {} |-> [res |-> "res1", sessionId |-> id]]

\* Map.prototype.set(key, value)
MapSet(map, key, value) ==
  [k \in DOMAIN map \cup {key} |-> IF k = key THEN value ELSE map[k]]

\* Map.prototype.delete(key)
MapDelete(map, key) == [k \in DOMAIN map \ {key} |-> map[k]]

\* Variant of addClient that keeps the client already registered.
addClientKeepFirst(map, sessionId, res) ==
  IF sessionId \in DOMAIN map THEN map
  ELSE MapSet(map, sessionId, [res |-> res, sessionId |-> sessionId])

\* addClient(sessionId, res)
addClient(map, sessionId, res) ==
  MapSet(map, sessionId, [res |-> res, sessionId |-> sessionId])

\* removeClient(sessionId)
removeClient(map, sessionId) == MapDelete(map, sessionId)

\* hasClient(sessionId)
hasClient(map, sessionId) == sessionId \in DOMAIN map

\* getClientCount()
getClientCount(map) == Cardinality(DOMAIN map)

\* String(n) of a non-negative integer, as JSON.stringify writes it.
DigitChars == <<"0","1","2","3","4","5","6","7","8","9">>

RECURSIVE NumberToString(_)
NumberToString(n) ==
  IF n < 10 THEN << DigitChars[n + 1] >>
  ELSE NumberToString(n \div 10) \o << DigitChars[(n % 10) + 1] >>

\* JSON.stringify of a string: quotes around it, the quote, the backslash and
\* the control characters escaped.
JsonEscape(c) ==
  IF c = "\"" THEN <<"\\", "\"">>
  ELSE IF c = "\\" THEN <<"\\", "\\">>
  ELSE IF c = "\n" THEN <<"\\", "n">>
  ELSE IF c = "\t" THEN <<"\\", "t">>
  ELSE << c >>

RECURSIVE JsonChars(_)
JsonChars(s) ==
  IF s = <<>> THEN <<>> ELSE JsonEscape(Head(s)) \o JsonChars(Tail(s))

JsonString(s) == <<"\"">> \o JsonChars(s) \o <<"\"">>

\* JSON.stringify({ stage, progress, message })
Stringify(stage, progress, message) ==
  <<"{","\"","s","t","a","g","e","\"",":">> \o JsonString(stage)
    \o <<",","\"","p","r","o","g","r","e","s","s","\"",":">> \o NumberToString(progress)
    \o <<",","\"","m","e","s","s","a","g","e","\"",":">> \o JsonString(message) \o <<"}">>

\* `data: ${JSON.stringify({ stage, progress, message })}\n\n`
Frame(stage, progress, message) ==
  <<"d","a","t","a",":"," ">> \o Stringify(stage, progress, message) \o <<"\n", "\n">>

\* Variant of sendProgress that writes the frame to every registered client.
sendProgressToAll(map, written, sessionId, stage, progress, message) ==
  [r \in DOMAIN written |->
     IF \E id \in DOMAIN map : map[id].res = r
     THEN Append(written[r], Frame(stage, progress, message))
     ELSE written[r]]

\* sendProgress(sessionId, stage, progress, message): the chunks written to
\* each response after the call.
sendProgress(map, written, sessionId, stage, progress, message) ==
  IF sessionId \in DOMAIN map
  THEN [written EXCEPT ![map[sessionId].res] =
          Append(@, Frame(stage, progress, message))]
  ELSE written

\* The progress events of progress.test.ts, and one whose message holds a
\* quote.
ProgressSamples ==
  { [stage |-> <<"f","e","t","c","h","i","n","g">>, progress |-> 50, message |-> <<"H","a","l","f","w","a","y"," ","d","o","n","e">>],
    [stage |-> <<"a","g","g","r","e","g","a","t","i","n","g">>, progress |-> 75, message |-> <<"P","r","o","c","e","s","s","i","n","g"," ","d","a","t","a">>],
    [stage |-> <<"c","o","m","p","l","e","t","e">>, progress |-> 100, message |-> <<"S","a","y"," ","\"","d","o","n","e","\"">>] }

TrkInit ==
  /\ clients = NoClients
  /\ trkWritten = [r \in MockResponses |-> <<>>]
  /\ trkLog = <<>>
  /\ trkCall = [op |-> "none"]

\* What every call on the tracker records.
TrkCalled(call) ==
  /\ Len(trkLog) < MaxTrackerOps
  /\ trkLog' = Append(trkLog, call)
  /\ trkCall' = [ call |-> call, clientsBefore |-> clients,
                  writtenBefore |-> trkWritten, outcome |-> "returned" ]

TrkAddClient ==
  /\ \E sessionId \in SessionIds, res \in MockResponses :
       /\ TrkCalled([op |-> "addClient", sessionId |-> sessionId, res |-> res])
       /\ clients' = addClient(clients, sessionId, res)
  /\ UNCHANGED trkWritten
  /\ UNCHANGED otherThanTrk

TrkRemoveClient ==
  /\ \E sessionId \in SessionIds :
       /\ TrkCalled([op |-> "removeClient", sessionId |-> sessionId])
       /\ clients' = removeClient(clients, sessionId)
  /\ UNCHANGED trkWritten
  /\ UNCHANGED otherThanTrk

TrkSendProgress ==
  /\ \E sessionId \in SessionIds, e \in ProgressSamples :
       /\ TrkCalled([op |-> "sendProgress", sessionId |-> sessionId, event |-> e])
       /\ trkWritten' = sendProgress(clients, trkWritten, sessionId,
                                     e.stage, e.progress, e.message)
  /\ UNCHANGED clients
  /\ UNCHANGED otherThanTrk

TrkHasClient ==
  /\ \E sessionId \in SessionIds :
       TrkCalled([op |-> "hasClient", sessionId |-> sessionId,
                  result |-> hasClient(clients, sessionId)])
  /\ UNCHANGED <<clients, trkWritten>>
  /\ UNCHANGED otherThanTrk

TrkGetClientCount ==
  /\ TrkCalled([op |-> "getClientCount", result |-> getClientCount(clients)])
  /\ UNCHANGED <<clients, trkWritten>>
  /\ UNCHANGED otherThanTrk

TrkNext ==
  \/ TrkAddClient \/ TrkRemoveClient \/ TrkSendProgress
  \/ TrkHasClient \/ TrkGetClientCount

(***************************************************************************)
(* The routes (server/routes.ts): the SSE endpoint GET                     *)
(* /api/progress/:sessionId and the handler of POST /api/reports.  The     *)
(* handler runs from one await to the next without interruption; SSE       *)
(* connections open and close between these segments.  A behaviour follows *)
(* one request from its arrival to its response.                           *)
(***************************************************************************)
MaxConns == 2

NoProgressClients == [id \in {} |-> [res |-> 0, sessionId |-> id]]

\* The chunks one call of sendProgress has added, with the connection that
\* received them.
Writes(before, after) ==
  LET changed == { c \in DOMAIN before : after[c] # before[c] }
  IN IF changed = {} THEN <<>>
     ELSE LET c == CHOOSE x \in changed : TRUE
          IN [i \in 1..(Len(after[c]) - Len(before[c])) |->
                [kind |-> "progress", conn |-> c,
                 frame |-> after[c][Len(before[c]) + i]]]

\* The x-session-id header: absent, empty or a session id.
NoHeader == "<undefined>"

SessionHeaders == { NoHeader, "", "session-1" }

\* if (sessionId) sendProgress(sessionId, stage, progress, message), applied
\* to the handler's view of the streams and its history.
Emit(st, sessionId, stage, progress, message) ==
  IF sessionId \in { NoHeader, "" } THEN st
  ELSE LET w == sendProgress(progressClients, st.written, sessionId,
                             stage, progress, message)
       IN [written |-> w, trace |-> st.trace \o Writes(st.written, w)]

\* A step of the handler that the history records.
Note(st, entry) == [st EXCEPT !.trace = Append(@, entry)]

\* res.status(status).json(body)
Respond(st, status, body) ==
  Note(st, [kind |-> "response", status |-> status, body |-> body])

\* Request bodies: no date, a date that is not a string, date strings.
ValidDate == <<"2","0","2","5","-","0","1","-","1","2">>

RequestBodies ==
  { [kind |-> "object"],
    [kind |-> "object", dateNumber |-> 20250112],
    [kind |-> "object", date |-> ValidDate],
    [kind |-> "object", date |-> <<"i","n","v","a","l","i","d","-","d","a","t","e">>],
    [kind |-> "object", date |-> <<"2","0","2","5","-","0","1","-","1","2","\n">>],
    [kind |-> "object", date |-> <<"2","0","2","5","-","1","-","1","2">>] }

\* fetchReportsRequestSchema.safeParse(body): date must be a string.
safeParse(body) ==
  IF Has(body, "date") THEN [success |-> TRUE, date |-> body.date]
  ELSE IF Has(body, "dateNumber")
  THEN [success |-> FALSE, details |-> <<"E","x","p","e","c","t","e","d"," ","s","t","r","i","n","g",","," ","r","e","c","e","i","v","e","d"," ","n","u","m","b","e","r">>]
  ELSE [success |-> FALSE, details |-> <<"R","e","q","u","i","r","e","d">>]

\* Variant of the date test that looks at the first ten characters only.
DateRegexTestPrefix(date) ==
  /\ Len(date) >= 10
  /\ \A i \in {1, 2, 3, 4, 6, 7, 9, 10} : date[i] \in Digits
  /\ date[5] = "-" /\ date[8] = "-"

\* /^\d{4}-\d{2}-\d{2}$/.test(date)
DateRegexTest(date) ==
  /\ Len(date) = 10
  /\ \A i \in {1, 2, 3, 4, 6, 7, 9, 10} : date[i] \in Digits
  /\ date[5] = "-" /\ date[8] = "-"

\* What the CAIC API answers with: no report, or two reports.
FetchedLists ==
  { <<>>,
    << [avalanche_observations_count |-> 2,
        observation_summary |-> <<"S","u","m">>],
       [avalanche_observations |->
          << [elevation |-> <<">","T","L">>, aspect |-> <<"N">>] >>,
        snowpack_detail |-> [description |-> <<"S","l","a","b">>],
        snowpack_observations |->
          << [cracking |-> <<"m","i","n","o","r">>,
              collapsing |-> <<"n","o","n","e">>,
              comments |-> <<"c","1">>] >>] >> }

\* collectTexts(reports)
RECURSIVE CollectReports(_, _)
CollectReports(out, rs) ==
  IF rs = <<>> \/ out = Thrown THEN out
  ELSE CollectReports(CollectReport(out, Head(rs)), Tail(rs))

collectTexts(rs) == CollectReports(NoTexts, rs)

\* What synthesizeSummary(texts, category) resolves to: the no-data message
\* for no texts, else a cached summary, a generated one or the error text.
SynthResults(texts, category) ==
  IF Len(texts) = 0
  THEN { [summary |-> NoDataMessage(category), cached |-> FALSE] }
  ELSE { [summary |-> <<"C","a","c","h","e","d">>, cached |-> TRUE],
         [summary |-> <<"T","e","s","t"," ","s","u","m","m","a","r","y">>, cached |-> FALSE],
         [summary |-> ErrorMessage(category), cached |-> FALSE] }

\* obsResult.cached ? "... loaded from cache" : "... generated"
SummaryMessage(name, result) ==
  IF result.cached THEN name \o <<" ","s","u","m","m","a","r","y"," ","l","o","a","d","e","d"," ","f","r","o","m"," ","c","a","c","h","e">>
  ELSE name \o <<" ","s","u","m","m","a","r","y"," ","g","e","n","e","r","a","t","e","d">>

NoRequest == [none |-> TRUE]

RtInit ==
  /\ progressClients = NoProgressClients
  /\ conns = <<>>
  /\ sseWritten = <<>>
  /\ reqPc = "idle"
  /\ req = NoRequest
  /\ reqData = NoRequest
  /\ reqTrace = <<>>

\* The session id of the request in progress stays registered only if no
\* step unregisters it.
StaysRegistered(map) ==
  IF reqPc \in {"idle", "done"} THEN req
  ELSE [req EXCEPT !.registered = @ /\ req.sessionId \in DOMAIN map]

\* GET /api/progress/:sessionId
SseConnect ==
  /\ Len(conns) < MaxConns
  /\ \E sessionId \in SessionIds :
       LET res == Len(conns) + 1
       IN /\ conns' = Append(conns, [sessionId |-> sessionId, open |-> TRUE])
          /\ sseWritten' = Append(sseWritten, << Frame(<<"c","o","n","n","e","c","t","e","d">>, 0, <<"C","o","n","n","e","c","t","e","d">>) >>)
          /\ progressClients' = addClient(progressClients, sessionId, res)
  /\ req' = StaysRegistered(progressClients')
  /\ UNCHANGED <<reqPc, reqData, reqTrace>>
  /\ UNCHANGED otherThanRt

\* req.on("close", ...) of an SSE connection
SseClose ==
  /\ \E c \in DOMAIN conns :
       /\ conns[c].open
       /\ conns' = [conns EXCEPT ![c].open = FALSE]
       /\ progressClients' = removeClient(progressClients, conns[c].sessionId)
  /\ req' = StaysRegistered(progressClients')
  /\ UNCHANGED <<sseWritten, reqPc, reqData, reqTrace>>
  /\ UNCHANGED otherThanRt

\* The handler's segment has run: its writes and its history are published.
Ran(st) ==
  /\ sseWritten' = st.written
  /\ reqTrace' = st.trace

\* POST /api/reports: from the start to a 400 response or to the await of
\* fetchCAICReports.
ReportsStart ==
  /\ reqPc = "idle"
  /\ \E body \in RequestBodies, sessionId \in SessionHeaders :
       LET parseResult == safeParse(body)
           st == [written |-> sseWritten, trace |-> <<>>]
           request == [body |-> body, sessionId |-> sessionId,
                       registered |-> sessionId \in DOMAIN progressClients]
       IN /\ req' = request
          /\ IF ~parseResult.success
             THEN /\ Ran(Respond(st, 400, [error |-> <<"I","n","v","a","l","i","d"," ","r","e","q","u","e","s","t">>,
                                           details |-> parseResult.details]))
                  /\ reqPc' = "done"
                  /\ reqData' = NoRequest
             ELSE IF ~DateRegexTest(parseResult.date)
             THEN /\ Ran(Respond(st, 400,
                           [error |-> <<"I","n","v","a","l","i","d"," ","d","a","t","e"," ","f","o","r","m","a","t","."," ","U","s","e"," ","Y","Y","Y","Y","-","M","M","-","D","D">>]))
                  /\ reqPc' = "done"
                  /\ reqData' = NoRequest
             ELSE /\ Ran(Note(Emit(st, sessionId, <<"f","e","t","c","h","i","n","g">>, 10,
                                   <<"F","e","t","c","h","i","n","g"," ","f","i","e","l","d"," ","r","e","p","o","r","t","s"," ","f","r","o","m"," ","C","A","I","C",".",".",".">>),
                              [kind |-> "fetch", date |-> parseResult.date]))
                  /\ reqPc' = "fetching"
                  /\ reqData' = [date |-> parseResult.date]
  /\ UNCHANGED <<progressClients, conns>>
  /\ UNCHANGED otherThanRt

\* fetchCAICReports resolved: progress 25 to 45, aggregateReports,
\* collectTexts, up to the await of the observation summary.
FetchResolved ==
  /\ reqPc = "fetching"
  /\ \E fetched \in FetchedLists :
       LET sessionId == req.sessionId
           st1 == Emit([written |-> sseWritten, trace |-> reqTrace],
                       sessionId, <<"f","e","t","c","h","i","n","g">>, 25,
                       <<"R","e","t","r","i","e","v","e","d"," ">> \o NumberToString(Len(fetched)) \o <<" ","r","e","p","o","r","t","s">>)
           st2 == Emit(st1, sessionId, <<"a","g","g","r","e","g","a","t","i","n","g">>, 30, <<"A","g","g","r","e","g","a","t","i","n","g"," ","r","e","p","o","r","t"," ","d","a","t","a",".",".",".">>)
           aggregatedData == aggregateReports(fetched)
           st3 == Emit(st2, sessionId, <<"a","g","g","r","e","g","a","t","i","n","g">>, 40, <<"D","a","t","a"," ","a","g","g","r","e","g","a","t","i","o","n"," ","c","o","m","p","l","e","t","e">>)
           texts == collectTexts(fetched)
           st4 == Emit(st3, sessionId, <<"s","y","n","t","h","e","s","i","z","i","n","g">>, 45, <<"G","e","n","e","r","a","t","i","n","g"," ","o","b","s","e","r","v","a","t","i","o","n"," ","s","u","m","m","a","r","y",".",".",".">>)
       IN IF texts = Thrown
          THEN /\ Ran(Respond(st3, 500, [error |-> <<"F","a","i","l","e","d"," ","t","o"," ","f","e","t","c","h"," ","a","n","d"," ","p","r","o","c","e","s","s"," ","r","e","p","o","r","t","s">>]))
               /\ reqPc' = "done"
               /\ UNCHANGED reqData
          ELSE /\ Ran(st4)
               /\ reqPc' = "synthObservation"
               /\ reqData' = [date |-> reqData.date,
                              aggregatedData |-> aggregatedData,
                              texts |-> texts]
  /\ UNCHANGED <<progressClients, conns, req>>
  /\ UNCHANGED otherThanRt

\* fetchCAICReports rejected (network error, a status that is not ok, a body
\* that is not JSON): the catch block answers 500.
FetchRejected ==
  /\ reqPc = "fetching"
  /\ Ran(Respond([written |-> sseWritten, trace |-> reqTrace], 500,
                 [error |-> <<"F","a","i","l","e","d"," ","t","o"," ","f","e","t","c","h"," ","a","n","d"," ","p","r","o","c","e","s","s"," ","r","e","p","o","r","t","s">>]))
  /\ reqPc' = "done"
  /\ reqData' = [date |-> reqData.date, fetchError |-> TRUE]
  /\ UNCHANGED <<progressClients, conns, req>>
  /\ UNCHANGED otherThanRt

\* The observation summary resolved: progress 60 and 65, up to the await of
\* the snowpack summary.
ObservationSummarized ==
  /\ reqPc = "synthObservation"
  /\ \E obsResult \in SynthResults(reqData.texts.observations, <<"O","b","s","e","r","v","a","t","i","o","n">>) :
       LET sessionId == req.sessionId
           st0 == Note([written |-> sseWritten, trace |-> reqTrace],
                       [kind |-> "summary", category |-> "Observation"])
           st1 == Emit(st0, sessionId, <<"s","y","n","t","h","e","s","i","z","i","n","g">>, 60,
                       SummaryMessage(<<"O","b","s","e","r","v","a","t","i","o","n">>, obsResult))
           st2 == Emit(st1, sessionId, <<"s","y","n","t","h","e","s","i","z","i","n","g">>, 65, <<"G","e","n","e","r","a","t","i","n","g"," ","s","n","o","w","p","a","c","k"," ","s","u","m","m","a","r","y",".",".",".">>)
       IN /\ Ran(st2)
          /\ reqData' = [date |-> reqData.date,
                         aggregatedData |-> reqData.aggregatedData,
                         texts |-> reqData.texts, obsResult |-> obsResult]
  /\ reqPc' = "synthSnowpack"
  /\ UNCHANGED <<progressClients, conns, req>>
  /\ UNCHANGED otherThanRt

\* The snowpack summary resolved: progress 80 and 85, up to the await of the
\* weather summary.
SnowpackSummarized ==
  /\ reqPc = "synthSnowpack"
  /\ \E snowResult \in SynthResults(reqData.texts.snowpack, <<"S","n","o","w","p","a","c","k">>) :
       LET sessionId == req.sessionId
           st0 == Note([written |-> sseWritten, trace |-> reqTrace],
                       [kind |-> "summary", category |-> "Snowpack"])
           st1 == Emit(st0, sessionId, <<"s","y","n","t","h","e","s","i","z","i","n","g">>, 80,
                       SummaryMessage(<<"S","n","o","w","p","a","c","k">>, snowResult))
           st2 == Emit(st1, sessionId, <<"s","y","n","t","h","e","s","i","z","i","n","g">>, 85, <<"G","e","n","e","r","a","t","i","n","g"," ","w","e","a","t","h","e","r"," ","s","u","m","m","a","r","y",".",".",".">>)
       IN /\ Ran(st2)
          /\ reqData' = [date |-> reqData.date,
                         aggregatedData |-> reqData.aggregatedData,
                         texts |-> reqData.texts, obsResult |-> reqData.obsResult,
                         snowResult |-> snowResult]
  /\ reqPc' = "synthWeather"
  /\ UNCHANGED <<progressClients, conns, req>>
  /\ UNCHANGED otherThanRt

\* Variant of WeatherSummarized that answers before it reports completion.
WeatherSummarizedRespondsFirst ==
  /\ reqPc = "synthWeather"
  /\ \E weatherResult \in SynthResults(reqData.texts.weather, <<"W","e","a","t","h","e","r">>) :
       LET sessionId == req.sessionId
           st0 == Note([written |-> sseWritten, trace |-> reqTrace],
                       [kind |-> "summary", category |-> "Weather"])
           st1 == Emit(st0, sessionId, <<"s","y","n","t","h","e","s","i","z","i","n","g">>, 95,
                       SummaryMessage(<<"W","e","a","t","h","e","r">>, weatherResult))
           response == [date |-> reqData.date,
                        aggregatedData |-> reqData.aggregatedData,
                        summaries |->
                          [observationSummary |-> reqData.obsResult.summary,
                           snowpackSummary |-> reqData.snowResult.summary,
                           weatherSummary |-> weatherResult.summary]]
           st2 == Respond(st1, 200, response)
       IN Ran(Emit(st2, sessionId, <<"c","o","m","p","l","e","t","e">>, 100, <<"R","e","p","o","r","t"," ","a","g","g","r","e","g","a","t","i","o","n"," ","c","o","m","p","l","e","t","e">>))
  /\ reqPc' = "done"
  /\ UNCHANGED <<progressClients, conns, req, reqData>>
  /\ UNCHANGED otherThanRt

\* The weather summary resolved: progress 95 and 100, then res.json(response).
WeatherSummarized ==
  /\ reqPc = "synthWeather"
  /\ \E weatherResult \in SynthResults(reqData.texts.weather, <<"W","e","a","t","h","e","r">>) :
       LET sessionId == req.sessionId
           st0 == Note([written |-> sseWritten, trace |-> reqTrace],
                       [kind |-> "summary", category |-> "Weather"])
           st1 == Emit(st0, sessionId, <<"s","y","n","t","h","e","s","i","z","i","n","g">>, 95,
                       SummaryMessage(<<"W","e","a","t","h","e","r">>, weatherResult))
           st2 == Emit(st1, sessionId, <<"c","o","m","p","l","e","t","e">>, 100, <<"R","e","p","o","r","t"," ","a","g","g","r","e","g","a","t","i","o","n"," ","c","o","m","p","l","e","t","e">>)
           response == [date |-> reqData.date,
                        aggregatedData |-> reqData.aggregatedData,
                        summaries |->
                          [observationSummary |-> reqData.obsResult.summary,
                           snowpackSummary |-> reqData.snowResult.summary,
                           weatherSummary |-> weatherResult.summary]]
       IN Ran(Respond(st2, 200, response))
  /\ reqPc' = "done"
  /\ UNCHANGED <<progressClients, conns, req, reqData>>
  /\ UNCHANGED otherThanRt

RtNext ==
  \/ SseConnect \/ SseClose
  \/ ReportsStart \/ FetchResolved \/ FetchRejected
  \/ ObservationSummarized \/ SnowpackSummarized \/ WeatherSummarized





(***************************************************************************)
(* The Home page of the client (client/src/pages/home.tsx) with the form   *)
(* of its ChatInterface: report fetches, chat requests and their answers.  *)
(***************************************************************************)
MaxFetches == 2
MaxChats == 2

\* The dates the user picks.
PickedDates == { <<"2","0","2","5","-","0","1","-","1","2">>,
                 <<"2","0","2","5","-","0","1","-","1","3">> }

\* What the user types into the chat box.
ChatInputs == { <<"q","1">>, <<" ","q","2"," ">>, <<" ","\t">> }

\* What POST /api/chat answers with.
ChatAnswers == { <<"a","1">>, <<"a","2">> }

NoneInFlight == [none |-> TRUE]

HomeInit ==
  /\ reportData = NullObject
  /\ chatMessages = <<>>
  /\ isLoading = FALSE
  /\ homeProgress = ""
  /\ eventSourceOpen = FALSE
  /\ reportFetch = NoneInFlight
  /\ chatPending = NoneInFlight
  /\ fetchCount = 0
  /\ chatCount = 0

\* The Fetch button (disabled while isLoading): handleSubmit, fetchReports up
\* to the await of the POST, connectSSE included.
HomeSubmit ==
  /\ ~isLoading
  /\ fetchCount < MaxFetches
  /\ \E date \in PickedDates :
       reportFetch' = [date |-> date, sessionId |-> fetchCount + 1]
  /\ fetchCount' = fetchCount + 1
  /\ isLoading' = TRUE
  /\ homeProgress' = "connecting"
  /\ eventSourceOpen' = TRUE
  /\ UNCHANGED <<reportData, chatMessages, chatPending, chatCount>>
  /\ UNCHANGED otherThanHome

\* eventSource.onmessage: setProgress(data)
HomeProgressEvent ==
  /\ eventSourceOpen
  /\ \E stage \in { "fetching", "complete" } : homeProgress' = stage
  /\ UNCHANGED <<reportData, chatMessages, isLoading, eventSourceOpen,
                 reportFetch, chatPending, fetchCount, chatCount>>
  /\ UNCHANGED otherThanHome

\* fetchReports after the await: the response is ok, setReportData(data),
\* setChatMessages([]), then the finally block.
HomeFetchSucceeded ==
  /\ reportFetch # NoneInFlight
  /\ reportData' = [date |-> reportFetch.date]
  /\ chatMessages' = <<>>
  /\ isLoading' = FALSE
  /\ eventSourceOpen' = FALSE
  /\ reportFetch' = NoneInFlight
  /\ UNCHANGED <<homeProgress, chatPending, fetchCount, chatCount>>
  /\ UNCHANGED otherThanHome

\* fetchReports after the await: the request failed or the response is not
\* ok; the catch block, then the finally block.
HomeFetchFailed ==
  /\ reportFetch # NoneInFlight
  /\ homeProgress' = "error"
  /\ isLoading' = FALSE
  /\ eventSourceOpen' = FALSE
  /\ reportFetch' = NoneInFlight
  /\ UNCHANGED <<reportData, chatMessages, chatPending, fetchCount, chatCount>>
  /\ UNCHANGED otherThanHome

\* The chat form's handleSubmit (returns on a blank input, while a chat
\* request is pending or without a report), handleSendMessage and the
\* mutationFn up to its await: the body carries the report on display.
HomeChatSend ==
  /\ chatCount < MaxChats
  /\ \E input \in ChatInputs :
       /\ ~Falsy(Trim(input))
       /\ chatPending = NoneInFlight
       /\ reportData # NullObject
       /\ chatPending' = [message |-> Trim(input), context |-> reportData]
  /\ chatCount' = chatCount + 1
  /\ UNCHANGED <<reportData, chatMessages, isLoading, homeProgress, eventSourceOpen,
                 reportFetch, fetchCount>>
  /\ UNCHANGED otherThanHome

\* chatMutation onSuccess: the user message and the assistant message are
\* appended together.
HomeChatSucceeded ==
  /\ chatPending # NoneInFlight
  /\ \E answer \in ChatAnswers :
       chatMessages' = chatMessages \o
         << [role |-> "user", content |-> chatPending.message,
             context |-> chatPending.context],
            [role |-> "assistant", content |-> answer,
             context |-> chatPending.context] >>
  /\ chatPending' = NoneInFlight
  /\ UNCHANGED <<reportData, isLoading, homeProgress, eventSourceOpen,
                 reportFetch, fetchCount, chatCount>>
  /\ UNCHANGED otherThanHome

\* The chat request failed: the mutation has no onError, nothing is appended.
HomeChatFailed ==
  /\ chatPending # NoneInFlight
  /\ chatPending' = NoneInFlight
  /\ UNCHANGED <<reportData, chatMessages, isLoading, homeProgress, eventSourceOpen,
                 reportFetch, fetchCount, chatCount>>
  /\ UNCHANGED otherThanHome

HomeNext ==
  \/ HomeSubmit \/ HomeProgressEvent \/ HomeFetchSucceeded \/ HomeFetchFailed
  \/ HomeChatSend \/ HomeChatSucceeded \/ HomeChatFailed



Init == ElevInit /\ AspInit /\ AggInit /\ InstInit /\ TextInit /\ CacheInit /\ LlmInit /\ TrkInit /\ RtInit /\ HomeInit

SpecElev == Init /\ [][ElevNext]_vars

SpecAspect == Init /\ [][AspNext]_vars

SpecAgg == Init /\ [][AggNext]_vars

\* One call of aggregateReports, for the sums over parts of the list.
SpecAggParts == Init /\ [][AggOnceNext]_vars

SpecInst == Init /\ [][InstNext]_vars

SpecText == Init /\ [][TextNext]_vars

SpecCore == Init /\ [][CoreNext]_vars

SpecCache == Init /\ [][CacheNext]_vars

SpecLlm == Init /\ [][LlmNext]_vars

SpecSlice == Init /\ [][SliceNext]_vars

SpecTracker == Init /\ [][TrkNext]_vars

SpecRoutes == Init /\ [][RtNext]_vars

SpecHome == Init /\ [][HomeNext]_vars

(***************************************************************************)
(* Properties of aggregateReports.                                         *)
(***************************************************************************)
\* The loop has been entered; Folded is the part of the list folded in so far.
AggRunning == aggPc \in {"loop", "done"}

Folded == SubSeq(reports, 1, aggIdx)

RECURSIVE SumOver(_, _)
SumOver(f, keys) ==
  IF keys = {} THEN 0
  ELSE LET k == CHOOSE x \in keys : TRUE IN f[k] + SumOver(f, keys \ {k})

RECURSIVE SumSeq(_)
SumSeq(q) == IF q = <<>> THEN 0 ELSE Head(q) + SumSeq(Tail(q))

Itemized(r) ==
  IF "avalanche_observations" \in DOMAIN r THEN r.avalanche_observations ELSE <<>>

SnowpackOf(r) ==
  IF "snowpack_observations" \in DOMAIN r THEN r.snowpack_observations ELSE <<>>

\* The count of a report that does not itemize its avalanches (0 when it
\* itemizes them or gives no count).
FallbackCount(r) ==
  IF Itemized(r) = <<>> /\ "avalanche_observations_count" \in DOMAIN r
  THEN r.avalanche_observations_count
  ELSE 0

\* The avalanche count of a report as the specification defines it.
SpecifiedCount(r) ==
  IF Len(Itemized(r)) > 0 THEN Len(Itemized(r)) ELSE FallbackCount(r)

\* Every report folded in so far has an absent or non-negative
\* avalanche_observations_count.
CountsNonNegative ==
  \A i \in 1..aggIdx :
     "avalanche_observations_count" \in DOMAIN reports[i]
       => reports[i].avalanche_observations_count >= 0

\* C1 as stated: for every report list, after each report folded in, the
\* elevation buckets and the aspect buckets each sum to at most totalAvalanches.
C1_BucketSums_Original ==
  AggRunning =>
    /\ SumOver(aggregated.avalanchesByElevation, ElevationBands)
          <= aggregated.totalAvalanches
    /\ SumOver(aggregated.avalanchesByAspect, Aspects)
          <= aggregated.totalAvalanches

\* C1 as amended: for every report list whose avalanche_observations_count
\* values are absent or non-negative, after each report folded in, the
\* elevation buckets and the aspect buckets each sum to at most totalAvalanches.
C1_BucketSums ==
  (AggRunning /\ CountsNonNegative) =>
    /\ SumOver(aggregated.avalanchesByElevation, ElevationBands)
          <= aggregated.totalAvalanches
    /\ SumOver(aggregated.avalanchesByAspect, Aspects)
          <= aggregated.totalAvalanches

\* Two reports have been folded in, the first with an itemized observation of
\* unclassifiable elevation, and the elevation buckets are not empty.
C1_Witness ==
  /\ aggPc = "done"
  /\ CountsNonNegative
  /\ aggIdx = 2
  /\ \E k \in 1..Len(Itemized(reports[1])) :
        mapElevation(Get(Itemized(reports[1])[k], "elevation")) = NoResult
  /\ SumOver(aggregated.avalanchesByElevation, ElevationBands) > 0
  /\ SumOver(aggregated.avalanchesByElevation, ElevationBands)
        < aggregated.totalAvalanches

\* The number of itemized avalanche observations of the folded reports whose
\* elevation matched no rule.
UnclassifiedCount ==
  SumSeq([i \in 1..aggIdx |->
    Cardinality({ k \in 1..Len(Itemized(reports[i])) :
       mapElevation(Get(Itemized(reports[i])[k], "elevation")) = NoResult })])

\* C2 as stated: the elevation buckets plus the number of observations of
\* unclassifiable elevation sum to totalAvalanches.
C2_ElevationBalance_Original ==
  AggRunning =>
    SumOver(aggregated.avalanchesByElevation, ElevationBands) + UnclassifiedCount
      = aggregated.totalAvalanches

\* C2 as amended: the elevation buckets, plus the number of itemized
\* observations of unclassifiable elevation, plus the
\* avalanche_observations_count of the reports that itemize no avalanche, sum
\* to totalAvalanches.
C2_ElevationBalance ==
  AggRunning =>
    SumOver(aggregated.avalanchesByElevation, ElevationBands) + UnclassifiedCount
      + SumSeq([i \in 1..aggIdx |-> FallbackCount(reports[i])])
      = aggregated.totalAvalanches

\* A list with an unclassifiable itemized observation and a report that only
\* gives a count has been aggregated.
C2_Witness ==
  /\ aggPc = "done"
  /\ UnclassifiedCount > 0
  /\ SumOver(aggregated.avalanchesByElevation, ElevationBands) > 0
  /\ \E i \in 1..aggIdx : FallbackCount(reports[i]) > 0

Max(a, b) == IF a >= b THEN a ELSE b

\* C3: the cracking buckets and the collapsing buckets each sum to the sum
\* over the folded reports of max(1, number of snowpack observations); each
\* report without snowpack observations (absent or empty) is one None in each.
C3_InstabilityTotals ==
  AggRunning =>
    LET units == SumSeq([i \in 1..aggIdx |-> Max(1, Len(SnowpackOf(reports[i])))])
        defaults == Cardinality({ i \in 1..aggIdx : SnowpackOf(reports[i]) = <<>> })
    IN /\ SumOver(aggregated.crackingCounts, Levels) = units
       /\ SumOver(aggregated.collapsingCounts, Levels) = units
       /\ aggregated.crackingCounts["None"] >= defaults
       /\ aggregated.collapsingCounts["None"] >= defaults

\* A report with an empty snowpack list, then one with two snowpack
\* observations, have been aggregated.
C3_Witness ==
  /\ aggPc = "done"
  /\ aggIdx = 2
  /\ "snowpack_observations" \in DOMAIN reports[1]
  /\ SnowpackOf(reports[1]) = <<>>
  /\ Len(SnowpackOf(reports[2])) = 2
  /\ SumOver(aggregated.crackingCounts, Levels) = 3

\* C4: totalAvalanches is the sum over the folded reports of the count (length
\* of the itemized list when non-empty, else avalanche_observations_count,
\* else 0) and reportsWithAvalanches the number of reports whose count is > 0.
C4_AvalancheCount ==
  AggRunning =>
    /\ aggregated.totalAvalanches
         = SumSeq([i \in 1..aggIdx |-> SpecifiedCount(reports[i])])
    /\ aggregated.reportsWithAvalanches
         = Cardinality({ i \in 1..aggIdx : SpecifiedCount(reports[i]) > 0 })

\* A report whose itemized list (two entries) disagrees with its
\* avalanche_observations_count, and a report giving only a count, have been
\* aggregated.
C4_Witness ==
  /\ aggPc = "done"
  /\ \E i \in 1..aggIdx :
        /\ Len(Itemized(reports[i])) = 2
        /\ "avalanche_observations_count" \in DOMAIN reports[i]
        /\ reports[i].avalanche_observations_count # 2
  /\ \E i \in 1..aggIdx : FallbackCount(reports[i]) > 0
  /\ aggregated.reportsWithAvalanches = 2
  /\ aggregated.totalAvalanches = 4

\* The report lists that are rs in another order.
Reorderings(rs) ==
  { [i \in 1..Len(rs) |-> rs[pi[i]]] : pi \in Permutations(1..Len(rs)) }

\* C5: aggregateReports returns the same snapshot for every reordering of the
\* report list.
C5_OrderIndependent ==
  aggPc = "done" =>
    \A other \in Reorderings(reports) : aggregateReports(other) = aggregated

\* A list of two different reports, both contributing avalanches, has been
\* aggregated.
C5_Witness ==
  /\ aggPc = "done"
  /\ Len(reports) = 2
  /\ reports[1] # reports[2]
  /\ Cardinality(Reorderings(reports)) = 2
  /\ aggregated.reportsWithAvalanches = 2

(***************************************************************************)
(* Properties of mapElevation.                                             *)
(***************************************************************************)
ElevCalled == elevPc = "done" /\ elevInput # Null

\* The markers of the three bands, as the specification lists them.
HasAboveMarker(d) ==
  \/ \E m \in { <<">","T","L">>, <<"A","T","L">>, <<"A","B","O","V","E">>,
                <<"A","L","P","I","N","E">> } : Includes(d, m)
  \/ (d # <<>> /\ d[1] = ">")

HasBelowMarker(d) ==
  \/ \E m \in { <<"<","T","L">>, <<"B","T","L">>, <<"B","E","L","O","W">>,
                <<"S","U","B">> } : Includes(d, m)
  \/ (d # <<>> /\ d[1] = "<")

HasNearMarker(d) ==
  \/ d = <<"T","L">>
  \/ \E m \in { <<"N","T","L">>, <<"N","E","A","R">>,
                <<"T","R","E","E","L","I","N","E">> } : Includes(d, m)

\* C6: on the decoded, trimmed, uppercased input the rules apply in the
\* priority above, below, near (first match wins), null when none matches;
\* no input containing ATL or BTL is classified nearTreeline.
C6_ElevationPriority ==
  ElevCalled =>
    LET d == ToUpperCase(Trim(Decode(elevInput))) IN
    /\ HasAboveMarker(d) => elevResult = "aboveTreeline"
    /\ (~HasAboveMarker(d) /\ HasBelowMarker(d)) => elevResult = "belowTreeline"
    /\ (~HasAboveMarker(d) /\ ~HasBelowMarker(d) /\ HasNearMarker(d))
          => elevResult = "nearTreeline"
    /\ (~HasAboveMarker(d) /\ ~HasBelowMarker(d) /\ ~HasNearMarker(d))
          => elevResult = NoResult
    /\ (Includes(d, <<"A","T","L">>) \/ Includes(d, <<"B","T","L">>))
          => elevResult # "nearTreeline"
    /\ ( \/ Includes(ToUpperCase(elevInput), <<"A","T","L">>)
         \/ Includes(ToUpperCase(elevInput), <<"B","T","L">>) )
          => elevResult # "nearTreeline"

\* An input matching an above marker, a below marker and a near marker at once
\* has been classified.
C6_Witness ==
  /\ ElevCalled
  /\ HasAboveMarker(ToUpperCase(Trim(Decode(elevInput))))
  /\ HasBelowMarker(ToUpperCase(Trim(Decode(elevInput))))
  /\ HasNearMarker(ToUpperCase(Trim(Decode(elevInput))))
  /\ elevResult = "aboveTreeline"

\* The positions at which pattern pat occurs in s.
Occurrences(s, pat) ==
  { i \in 1..(Len(s) - Len(pat) + 1) : SubSeq(s, i, i + Len(pat) - 1) = pat }

\* s with the Len(pat) characters at position i replaced by rep.
ReplaceAt(s, i, pat, rep) ==
  SubSeq(s, 1, i - 1) \o rep \o SubSeq(s, i + Len(pat), Len(s))

EntityForms ==
  { <<Ent62, GtChar>>, <<EntGt, GtChar>>, <<Ent60, LtChar>>, <<EntLt, LtChar>> }

\* C7: replacing any occurrence of &#62; &gt; &#60; &lt; in the input by the
\* character it stands for does not change the band mapElevation returns.
C7_EntityDecoding ==
  ElevCalled =>
    \A e \in EntityForms : \A i \in Occurrences(elevInput, e[1]) :
       mapElevation(ReplaceAt(elevInput, i, e[1], e[2])) = elevResult

\* An input holding a named entity has been classified by the decoded sign.
C7_Witness ==
  /\ ElevCalled
  /\ Occurrences(elevInput, EntLt) # {}
  /\ Occurrences(elevInput, Ent62) # {}
  /\ elevResult = "belowTreeline"

\* C8 as stated: two inputs that differ only in the case of their letters are
\* mapped to the same result.
C8_CaseInsensitive_Original ==
  (ElevCalled /\ ToUpperCase(elevOther) = ToUpperCase(elevInput))
    => elevOtherResult = elevResult

\* C8 as amended: two inputs that differ only in the case of their letters and
\* hold the lower-case entity names &gt; and &lt; at the same positions are
\* mapped to the same result.
C8_CaseInsensitive ==
  ( /\ ElevCalled
    /\ ToUpperCase(elevOther) = ToUpperCase(elevInput)
    /\ Occurrences(elevOther, EntGt) = Occurrences(elevInput, EntGt)
    /\ Occurrences(elevOther, EntLt) = Occurrences(elevInput, EntLt) )
    => elevOtherResult = elevResult

\* Two inputs of different letter case, both holding &gt;, have been classified.
C8_Witness ==
  /\ ElevCalled
  /\ elevOther # elevInput
  /\ ToUpperCase(elevOther) = ToUpperCase(elevInput)
  /\ Occurrences(elevInput, EntGt) # {}
  /\ Occurrences(elevOther, EntGt) = Occurrences(elevInput, EntGt)
  /\ Occurrences(elevOther, EntLt) = Occurrences(elevInput, EntLt)
  /\ elevResult = "aboveTreeline"

(***************************************************************************)
(* Properties of mapAspect.                                                *)
(***************************************************************************)
AspCalled == aspPc = "done" /\ aspInput # Null

AllAspects == twoLetterAspects \o singleLetterAspects

IsLetter(c) == c \in DOMAIN UpperOf \/ c \in DOMAIN LowerOf

IsLetterDigitUnderscore(c) == IsLetter(c) \/ c \in Digits \/ c = "_"

\* a occurs in s with a non-letter character or a string edge on each side.
WholeWordBetweenNonLetters(s, a) ==
  \E i \in Occurrences(s, a) :
     /\ (i = 1 \/ ~IsLetter(s[i - 1]))
     /\ (i + Len(a) - 1 = Len(s) \/ ~IsLetter(s[i + Len(a)]))

\* a occurs in s with, on each side, a string edge or a character that is
\* neither a letter nor a digit nor an underscore.
WholeWord(s, a) ==
  \E i \in Occurrences(s, a) :
     /\ (i = 1 \/ ~IsLetterDigitUnderscore(s[i - 1]))
     /\ (i + Len(a) - 1 = Len(s) \/ ~IsLetterDigitUnderscore(s[i + Len(a)]))

\* The name of the first code of the list for which the set hits has an index.
FirstName(aspects, hits) ==
  IF hits = {} THEN NoResult
  ELSE AspectName(aspects[CHOOSE k \in hits : \A j \in hits : k <= j])

\* C9 as stated: a code matches exactly when the uppercased, trimmed input
\* equals it or contains it bounded on each side by a non-letter character
\* (digits and underscore included) or a string edge; the result is the first
\* matching code in the order NE, NW, SE, SW, N, E, S, W, null when none matches.
C9_WholeWord_Original ==
  AspCalled =>
    LET u == Trim(ToUpperCase(aspInput)) IN
    aspResult = FirstName(AllAspects,
      { k \in 1..Len(AllAspects) :
          u = AllAspects[k] \/ WholeWordBetweenNonLetters(u, AllAspects[k]) })

\* C9 as amended: a code matches exactly when the uppercased, trimmed input
\* equals it or contains it bounded on each side by a string edge or by a
\* character that is neither a letter, a digit nor an underscore; the result
\* is the first matching code in the order NE, NW, SE, SW, N, E, S, W, null
\* when none matches.
C9_WholeWord ==
  AspCalled =>
    LET u == Trim(ToUpperCase(aspInput)) IN
    aspResult = FirstName(AllAspects,
      { k \in 1..Len(AllAspects) :
          u = AllAspects[k] \/ WholeWord(u, AllAspects[k]) })

\* An input in which N stands next to a digit or underscore (no match) and S
\* stands as a word of its own has been classified S.
C9_Witness ==
  /\ AspCalled
  /\ WholeWordBetweenNonLetters(Trim(ToUpperCase(aspInput)), <<"N">>)
  /\ ~WholeWord(Trim(ToUpperCase(aspInput)), <<"N">>)
  /\ aspResult = "S"

\* C10: when the input contains a two-letter code as a whole word the result
\* is the first of NE, NW, SE, SW that does, whatever single letters it also
\* contains; a single-letter result is returned only for a letter standing as
\* a whole word of its own, with no two-letter code present as a whole word.
C10_TwoLetterFirst ==
  AspCalled =>
    LET u == Trim(ToUpperCase(aspInput))
        twoHits == { k \in 1..Len(twoLetterAspects) :
                       WholeWord(u, twoLetterAspects[k]) }
    IN /\ twoHits # {} => aspResult = FirstName(twoLetterAspects, twoHits)
       /\ aspResult \in {"N", "E", "S", "W"} =>
            /\ twoHits = {}
            /\ WholeWord(u, <<aspResult>>)

\* An input that starts with the word S and later holds NE as a word has been
\* classified NE.
C10_Witness ==
  /\ AspCalled
  /\ StartsWith(Trim(ToUpperCase(aspInput)), <<"S"," ">>)
  /\ WholeWord(Trim(ToUpperCase(aspInput)), <<"S">>)
  /\ WholeWord(Trim(ToUpperCase(aspInput)), <<"N","E">>)
  /\ aspResult = "NE"

(***************************************************************************)
(* Properties of mapInstabilityLevel.                                      *)
(***************************************************************************)
InstCalled == instPc = "done"

\* s occurs in t as a contiguous run of characters.
Occurs(s, t) ==
  \E i \in 0..(Len(t) - Len(s)) : \A k \in 1..Len(s) : t[i + k] = s[k]

\* The keyword groups in the order of the levels.
KeywordsOfLevel ==
  << [level |-> "None", keywords |-> { <<"n","o","n","e">> }],
     [level |-> "Minor",
      keywords |-> { <<"m","i","n","o","r">>, <<"s","l","i","g","h","t">>,
                     <<"l","i","g","h","t">> }],
     [level |-> "Moderate",
      keywords |-> { <<"m","o","d","e","r","a","t","e">>, <<"m","e","d","i","u","m">> }],
     [level |-> "Major",
      keywords |-> { <<"m","a","j","o","r">>, <<"h","e","a","v","y">>,
                     <<"s","i","g","n","i","f","i","c","a","n","t">> }],
     [level |-> "Severe",
      keywords |-> { <<"s","e","v","e","r","e">>, <<"e","x","t","r","e","m","e">>,
                     <<"w","i","d","e","s","p","r","e","a","d">> }] >>

\* The levels whose rule the (non-null) input matches, as indices.
LevelsMatched(input) ==
  LET lower == ToLowerCase(input)
  IN { k \in 1..Len(KeywordsOfLevel) :
         \/ \E w \in KeywordsOfLevel[k].keywords : Occurs(w, lower)
         \/ k = 1 /\ (lower = <<"n","o">> \/ lower = <<>>) }

\* C11: the result of mapInstabilityLevel is always one of None, Minor,
\* Moderate, Major, Severe; null and the empty string give None; otherwise the
\* result is the level of the earliest rule, in the order None, Minor,
\* Moderate, Major, Severe, that the lowercased input matches, and None when
\* it matches no rule.
C11_InstabilityFirstMatch ==
  InstCalled =>
    /\ instResult \in {"None", "Minor", "Moderate", "Major", "Severe"}
    /\ IF instInput = Null
       THEN instResult = "None"
       ELSE LET hits == LevelsMatched(instInput)
            IN IF hits = {}
               THEN instResult = "None"
               ELSE \E k \in hits :
                      /\ \A j \in hits : k <= j
                      /\ instResult = KeywordsOfLevel[k].level

\* An input holding keywords of three levels has been classified by the
\* earliest of them.
C11_Witness ==
  /\ InstCalled
  /\ instInput # Null
  /\ LevelsMatched(instInput) = {2, 4, 5}
  /\ instResult = "Minor"

(***************************************************************************)
(* Properties of collectTexts.                                             *)
(***************************************************************************)
\* The loop has visited the first textIdx reports without a throw.
TextVisited == textPc \in {"loop", "done"}

TextReturned == textPc = "done"

\* A source text that yields no entry: null, absent, empty or all whitespace.
Blank(t) == t = Null \/ \A i \in 1..Len(t) : t[i] \in Whitespace

\* A non-blank text without its leading and trailing whitespace.
Stripped(t) ==
  LET inked == { i \in 1..Len(t) : t[i] \notin Whitespace }
      first == CHOOSE i \in inked : \A j \in inked : i <= j
      last == CHOOSE i \in inked : \A j \in inked : j <= i
  IN SubSeq(t, first, last)

Entry(t) == IF Blank(t) THEN <<>> ELSE << Stripped(t) >>

RECURSIVE Flatten(_)
Flatten(ss) == IF ss = <<>> THEN <<>> ELSE Head(ss) \o Flatten(Tail(ss))

Present(t) == t # Null

\* The observation text of a report as the preference rule reads: the
\* summary when it is present, the description otherwise.
PreferredWhenPresent(r) ==
  IF Present(Get(r, "observation_summary"))
  THEN Get(r, "observation_summary")
  ELSE Get(r, "description")

\* The same with an empty summary counted as absent.
PreferredWhenNonEmpty(r) ==
  IF Present(Get(r, "observation_summary")) /\ Get(r, "observation_summary") # <<>>
  THEN Get(r, "observation_summary")
  ELSE Get(r, "description")

\* C13 as stated: each visited report contributes to the observations list at
\* most one text, the trimmed observation_summary when that field is present
\* (not null, not undefined) and the trimmed description only otherwise.
C13_ObservationText_Original ==
  TextVisited =>
    /\ Len(textOut.observations) <= textIdx
    /\ textOut.observations =
         Flatten([i \in 1..textIdx |-> Entry(PreferredWhenPresent(textReports[i]))])

\* C13 (amended): each visited report contributes to the observations list at
\* most one text: the trimmed observation_summary when that field is present
\* and not the empty string, and the trimmed description only when
\* observation_summary is absent, null or the empty string; never both.
C13_ObservationText ==
  TextVisited =>
    /\ Len(textOut.observations) <= textIdx
    /\ textOut.observations =
         Flatten([i \in 1..textIdx |-> Entry(PreferredWhenNonEmpty(textReports[i]))])

\* A report with both a summary and a description has contributed its
\* trimmed summary, and a report with an empty summary its description.
C13_Witness ==
  /\ TextReturned
  /\ Len(textReports) = 2
  /\ ~Blank(Get(textReports[1], "observation_summary"))
  /\ ~Blank(Get(textReports[1], "description"))
  /\ Get(textReports[2], "observation_summary") = <<>>
  /\ ~Blank(Get(textReports[2], "description"))
  /\ textOut.observations =
       << Stripped(Get(textReports[1], "observation_summary")),
          Stripped(Get(textReports[2], "description")) >>

\* The source texts of the snowpack (or weather) list in one report: the
\* detail description, then the comments of the itemized observations.
DetailOf(r, detail) ==
  IF Has(r, detail) /\ r[detail] # NullObject
  THEN Get(r[detail], "description")
  ELSE Null

CommentsOf(r, list) ==
  LET obs == IF Has(r, list) /\ r[list] # NullList THEN r[list] ELSE <<>>
  IN [i \in 1..Len(obs) |-> Get(obs[i], "comments")]

SourcesOf(r, detail, list) == << DetailOf(r, detail) >> \o CommentsOf(r, list)

\* Number of non-blank texts among the sources of the first n reports.
RECURSIVE NonBlankSources(_, _, _)
NonBlankSources(n, detail, list) ==
  IF n = 0 THEN 0
  ELSE LET src == SourcesOf(textReports[n], detail, list)
       IN Cardinality({ i \in 1..Len(src) : ~Blank(src[i]) })
            + NonBlankSources(n - 1, detail, list)

\* An entry of a returned list: at least one character, none of the two ends
\* a whitespace character.
Clean(t) ==
  /\ Len(t) > 0
  /\ t[1] \notin Whitespace
  /\ t[Len(t)] \notin Whitespace

\* C14: every string in the observations, snowpack and weather lists is
\* non-empty with no leading or trailing whitespace, and the lists hold one
\* entry per non-blank source text only: a null, absent, empty or
\* whitespace-only source produces no entry.
C14_CollectedTextsClean ==
  TextVisited =>
    /\ \A l \in {"observations", "snowpack", "weather"} :
         \A i \in 1..Len(textOut[l]) : Clean(textOut[l][i])
    /\ Len(textOut.snowpack)
         = NonBlankSources(textIdx, "snowpack_detail", "snowpack_observations")
    /\ Len(textOut.weather)
         = NonBlankSources(textIdx, "weather_detail", "weather_observations")
    /\ Len(textOut.observations)
         <= Cardinality({ i \in 1..textIdx :
                            \/ ~Blank(Get(textReports[i], "observation_summary"))
                            \/ ~Blank(Get(textReports[i], "description")) })

\* A report with padded, blank, absent and plain snowpack comments has been
\* collected: its blank sources left no entry.
C14_Witness ==
  /\ TextReturned
  /\ \E i \in 1..Len(textReports) :
       LET src == SourcesOf(textReports[i], "snowpack_detail", "snowpack_observations")
       IN /\ \E k \in 1..Len(src) : Blank(src[k])
          /\ \E k \in 1..Len(src) : ~Blank(src[k]) /\ ~Clean(src[k])
  /\ Len(textOut.snowpack) = 3

\* C15: the snowpack list is, report after report in input order, the
\* non-blank detail description followed by the non-blank comments of the
\* itemized observations in their input order; likewise the weather list; and
\* the observations list holds the reports' observation texts in report order.
C15_CollectOrder ==
  TextVisited =>
    /\ textOut.snowpack =
         Flatten([i \in 1..textIdx |->
           LET src == SourcesOf(textReports[i], "snowpack_detail", "snowpack_observations")
           IN Flatten([k \in 1..Len(src) |-> Entry(src[k])])])
    /\ textOut.weather =
         Flatten([i \in 1..textIdx |->
           LET src == SourcesOf(textReports[i], "weather_detail", "weather_observations")
           IN Flatten([k \in 1..Len(src) |-> Entry(src[k])])])
    /\ textOut.observations =
         Flatten([i \in 1..textIdx |-> Entry(PreferredWhenNonEmpty(textReports[i]))])

\* Two reports with a detail description and comments each have been
\* collected: the first report's entries precede the second's, and the
\* description precedes the comments.
C15_Witness ==
  /\ TextReturned
  /\ Len(textReports) = 2
  /\ \A i \in 1..2 :
       /\ ~Blank(DetailOf(textReports[i], "snowpack_detail"))
       /\ \E k \in 1..Len(CommentsOf(textReports[i], "snowpack_observations")) :
            ~Blank(CommentsOf(textReports[i], "snowpack_observations")[k])
  /\ Len(textOut.snowpack) = 6
  /\ textOut.snowpack[1] = Stripped(DetailOf(textReports[1], "snowpack_detail"))
  /\ textOut.snowpack[4] = Stripped(DetailOf(textReports[2], "snowpack_detail"))

(***************************************************************************)
(* Totality of the five functions.                                         *)
(***************************************************************************)
Counter(agg, f) == agg[f] \in Int

Histogram(agg, f, keys) ==
  /\ DOMAIN agg[f] = keys
  /\ \A k \in keys : agg[f][k] \in Int

\* C12: no call throws.  mapElevation, mapAspect and mapInstabilityLevel
\* return a value of their result type for null / undefined, the empty
\* string, whitespace-only strings and other strings; aggregateReports holds
\* a complete snapshot at every step and collectTexts three lists, never a
\* TypeError, whatever optional fields of the reports are absent or null.
C12_NeverThrows ==
  /\ elevPc = "done" => elevResult \in ElevationBands \cup {NoResult}
  /\ aspPc = "done" => aspResult \in Aspects \cup {NoResult}
  /\ instPc = "done" => instResult \in Levels
  /\ /\ Counter(aggregated, "totalReports")
     /\ Counter(aggregated, "reportsWithAvalanches")
     /\ Counter(aggregated, "totalAvalanches")
     /\ Histogram(aggregated, "avalanchesByElevation", ElevationBands)
     /\ Histogram(aggregated, "avalanchesByAspect", Aspects)
     /\ Histogram(aggregated, "crackingCounts", Levels)
     /\ Histogram(aggregated, "collapsingCounts", Levels)
  /\ textPc # "thrown"
  /\ textOut # Thrown
  /\ DOMAIN textOut = {"observations", "snowpack", "weather"}

\* collectTexts has returned for a list that holds a report whose details and
\* observation lists are null and a report whose detail carries a null
\* description and whose first comment is null.
C12_Witness ==
  /\ TextReturned
  /\ Len(textReports) = 2
  /\ Has(textReports[1], "snowpack_detail")
  /\ textReports[1].snowpack_detail = NullObject
  /\ textReports[1].snowpack_observations = NullList
  /\ Has(textReports[2], "snowpack_detail")
  /\ textReports[2].snowpack_detail # NullObject
  /\ Get(textReports[2].snowpack_detail, "description") = Null
  /\ Get(textReports[2].snowpack_observations[1], "comments") = Null
  /\ textOut # Thrown

(***************************************************************************)
(* Repeated calls of aggregateReports.                                     *)
(***************************************************************************)
\* C16: a second call of aggregateReports on the same list returns a snapshot
\* identical to the first; each call starts from a fresh snapshot whose
\* counters the loop fills are all zero, whatever an earlier call left; and no
\* step of a call changes the input list.
C16_Idempotent ==
  /\ [](/\ (aggPc = "done" /\ aggCalls = 2) => aggregated = aggFirst
        /\ (aggPc = "loop" /\ aggIdx = 0) =>
             /\ aggregated.totalReports = Len(reports)
             /\ aggregated.reportsWithAvalanches = 0
             /\ aggregated.totalAvalanches = 0
             /\ \A b \in ElevationBands : aggregated.avalanchesByElevation[b] = 0
             /\ \A a \in Aspects : aggregated.avalanchesByAspect[a] = 0
             /\ \A l \in Levels : aggregated.crackingCounts[l] = 0
             /\ \A l \in Levels : aggregated.collapsingCounts[l] = 0)
  /\ [][aggPc # "input" => reports' = reports]_vars

\* The second call on a list with avalanches and snowpack observations has
\* returned.
C16_Witness ==
  /\ aggPc = "done"
  /\ aggCalls = 2
  /\ Len(reports) = 2
  /\ aggFirst.totalAvalanches > 0
  /\ aggFirst.crackingCounts["Minor"] > 0
  /\ aggregated = aggFirst

(***************************************************************************)
(* The two-report scenario.                                                *)
(***************************************************************************)
ScenarioReports ==
  << [avalanche_observations |-> << [elevation |-> <<">","T","L">>, aspect |-> <<"N">>] >>,
      snowpack_observations |-> <<>>],
     [avalanche_observations_count |-> 2,
      snowpack_observations |->
        << [cracking |-> <<"m","i","n","o","r">>, collapsing |-> <<"n","o","n","e">>] >>] >>

ScenarioSnapshot ==
  [ totalReports |-> 2,
    reportsWithAvalanches |-> 2,
    totalAvalanches |-> 3,
    avalanchesByElevation |->
      [b \in ElevationBands |-> IF b = "aboveTreeline" THEN 1 ELSE 0],
    avalanchesByAspect |-> [a \in Aspects |-> IF a = "N" THEN 1 ELSE 0],
    crackingCounts |-> [l \in Levels |-> IF l \in {"None", "Minor"} THEN 1 ELSE 0],
    collapsingCounts |-> [l \in Levels |-> IF l = "None" THEN 2 ELSE 0] ]

\* C17: for the list of report 1 (one avalanche observation '>TL' / 'N', empty
\* snowpack_observations) and report 2 (avalanche_observations_count 2, one
\* snowpack observation 'minor' / 'none') aggregateReports returns
\* totalReports 2, reportsWithAvalanches 2, totalAvalanches 3, aboveTreeline 1,
\* aspect N 1, cracking None 1 and Minor 1, collapsing None 2, and 0 in every
\* other counter.
C17_Scenario ==
  (aggPc = "done" /\ reports = ScenarioReports) => aggregated = ScenarioSnapshot

C17_Witness ==
  /\ aggPc = "done"
  /\ reports = ScenarioReports
  /\ aggregated.totalAvalanches = 3
  /\ aggregated.collapsingCounts["None"] = 2

(***************************************************************************)
(* Properties of ResponseCache.                                            *)
(***************************************************************************)
\* At the time of the latest call, hash had been set, not cleared since, and
\* less than the TTL had elapsed since its latest set.
LiveAt(hash, at) ==
  /\ hash \in DOMAIN lastSet
  /\ at - lastSet[hash].timestamp < TtlMs

\* C18: get(h) returns the response of the most recent set(h) exactly when
\* that set exists, no clear came after it and strictly less than the TTL has
\* elapsed since it (an overwrite restarts the TTL, a get does not extend it);
\* otherwise it returns null, and when the Map held an expired entry for h the
\* get deleted it and size() is one less than before; in every other case
\* the get leaves size() as it was.
C18_CacheSemantics ==
  cacheCall.op = "get" =>
    LET h == cacheCall.hash
        live == LiveAt(h, cacheCall.at)
    IN /\ live => cacheCall.result = lastSet[h].response
       /\ ~live => cacheCall.result = Null
       /\ (cacheCall.held /\ ~live) =>
            /\ h \notin DOMAIN cache
            /\ size(cache) = cacheCall.sizeBefore - 1
       /\ ~(cacheCall.held /\ ~live) => size(cache) = cacheCall.sizeBefore

\* A get of an entry exactly TTL old, overwritten once and read before, has
\* returned null and shrunk the cache from two entries to one.
C18_Witness ==
  /\ cacheCall.op = "get"
  /\ cacheCall.held
  /\ cacheCall.at - lastSet[cacheCall.hash].timestamp = TtlMs
  /\ lastSet[cacheCall.hash].timestamp > 0
  /\ cacheCall.result = Null
  /\ cacheCall.sizeBefore = 2
  /\ size(cache) = 1

(***************************************************************************)
(* Properties of synthesizeSummary and chatWithContext.                    *)
(***************************************************************************)
SynthReturned == llmPc = "returned" /\ llmCall.fn = "synthesizeSummary"

\* The Map held an entry for the key of the call that was younger than the
\* TTL when the call started.
HeldFresh(call) ==
  /\ call.key \in DOMAIN call.cacheBefore
  /\ call.startedAt - call.cacheBefore[call.key].timestamp < TtlMs

\* The call before the current one was a synthesizeSummary with the same
\* category and texts.
SamePayloadBefore ==
  /\ llmPrev.call.fn = "synthesizeSummary"
  /\ llmPrev.call.category = llmCall.category
  /\ llmPrev.call.texts = llmCall.texts

\* C19: a synthesizeSummary call with an empty list returns the no-data
\* message with cached = false, without an API call and with the cache as it
\* was.  With a non-empty list and an unexpired entry under its key it returns
\* that entry with cached = true and no API call; otherwise it makes one API
\* call and, once the API has answered, has stored the summary it returns
\* (cached = false) under the key.  The next call with the same category and
\* texts, started less than the TTL after that, returns the same summary with
\* cached = true and no API call.
C19_SynthesizeCaching ==
  /\ (llmPc = "awaiting" /\ llmCall.fn = "synthesizeSummary") =>
       /\ llmCall.texts # <<>>
       /\ ~HeldFresh(llmCall)
       /\ llmCall.apiCalls = 1
  /\ SynthReturned =>
       /\ llmCall.texts = <<>> =>
            /\ llmResult = [summary |-> NoDataMessage(llmCall.category), cached |-> FALSE]
            /\ llmCall.apiCalls = 0
            /\ cache = llmCall.cacheBefore
       /\ (llmCall.texts # <<>> /\ HeldFresh(llmCall)) =>
            /\ llmResult = [summary |-> llmCall.cacheBefore[llmCall.key].response,
                            cached |-> TRUE]
            /\ llmCall.apiCalls = 0
            /\ cache = llmCall.cacheBefore
       /\ (llmCall.texts # <<>> /\ ~HeldFresh(llmCall)) =>
            /\ llmCall.apiCalls = 1
            /\ llmCall.outcome = "resolved" =>
                 /\ llmResult.cached = FALSE
                 /\ llmCall.key \in DOMAIN cache
                 /\ cache[llmCall.key] =
                      [response |-> llmResult.summary, timestamp |-> llmCall.endedAt]
       /\ ( /\ SamePayloadBefore
            /\ llmCall.texts # <<>>
            /\ llmPrev.call.outcome = "resolved"
            /\ llmCall.startedAt - llmPrev.call.endedAt < TtlMs ) =>
            /\ llmResult = [summary |-> llmPrev.result.summary, cached |-> TRUE]
            /\ llmCall.apiCalls = 0

\* A call has been answered from the cache with the summary the call before
\* it obtained from the API, some time but less than the TTL earlier.
C19_Witness ==
  /\ SynthReturned
  /\ SamePayloadBefore
  /\ Len(llmCall.texts) = 2
  /\ llmPrev.call.outcome = "resolved"
  /\ llmPrev.result = [summary |-> <<"S","1">>, cached |-> FALSE]
  /\ llmCall.startedAt > llmPrev.call.endedAt
  /\ llmResult = [summary |-> <<"S","1">>, cached |-> TRUE]
  /\ llmCall.apiCalls = 0

\* The cache after the call differs from the cache before it at most by the
\* expired entry under the key of the call, which the lookup removed.
OnlyExpiredEntryRemoved(call) ==
  /\ DOMAIN cache \subseteq DOMAIN call.cacheBefore
  /\ \A h \in DOMAIN cache : cache[h] = call.cacheBefore[h]
  /\ \A h \in DOMAIN call.cacheBefore \ DOMAIN cache :
       /\ h = call.key
       /\ call.startedAt - call.cacheBefore[h].timestamp >= TtlMs

\* What C20 says of the results: the error texts, cached = false, the error
\* text in no cache entry, and an API call by the next call with the same
\* payload.
FailureResults ==
  /\ (SynthReturned /\ llmCall.outcome = "rejected") =>
       /\ llmResult = [summary |-> ErrorMessage(llmCall.category), cached |-> FALSE]
       /\ \A h \in DOMAIN cache : cache[h].response # llmResult.summary
  /\ ( /\ llmPc \in {"awaiting", "returned"}
       /\ llmCall.fn = "synthesizeSummary"
       /\ SamePayloadBefore
       /\ llmPrev.call.outcome = "rejected" ) =>
       llmCall.apiCalls = 1
  /\ (llmPc = "returned" /\ llmCall.fn = "chatWithContext"
        /\ llmCall.outcome = "rejected") =>
       llmResult = [reply |-> ChatErrorMessage]

\* C20 as stated: after a failed API call synthesizeSummary returns the error
\* text with cached = false and the cache is as it was before the call; the
\* next call with the same payload calls the API again; chatWithContext
\* returns its error text.
C20_ApiFailure_Original ==
  /\ FailureResults
  /\ (SynthReturned /\ llmCall.outcome = "rejected") => cache = llmCall.cacheBefore

\* C20 (amended): after a failed API call synthesizeSummary returns the error
\* text (with the category in lower case) with cached = false and has stored
\* nothing: the cache is as before the call except that the lookup has
\* removed an expired entry under the key of the call; the next call with the
\* same payload calls the API again; chatWithContext returns its error text.
C20_ApiFailure ==
  /\ FailureResults
  /\ (SynthReturned /\ llmCall.outcome = "rejected") => OnlyExpiredEntryRemoved(llmCall)

\* Two calls with the same payload have failed one after the other, each
\* after an API call.
C20_Witness ==
  /\ SynthReturned
  /\ llmCall.outcome = "rejected"
  /\ SamePayloadBefore
  /\ llmPrev.call.outcome = "rejected"
  /\ llmPrev.call.apiCalls = 1
  /\ llmCall.apiCalls = 1
  /\ llmResult.summary = ErrorMessage(llmCall.category)

(***************************************************************************)
(* The limit of 50 texts.                                                  *)
(***************************************************************************)
FirstFifty(texts) == [i \in 1..(IF Len(texts) < 50 THEN Len(texts) ELSE 50) |-> texts[i]]

\* The texts of a list written one after the other with the separator line
\* between them.
RECURSIVE Joined(_)
Joined(texts) ==
  IF Len(texts) = 0 THEN <<>>
  ELSE IF Len(texts) = 1 THEN texts[1]
  ELSE Joined(SubSeq(texts, 1, Len(texts) - 1))
         \o <<"\n","-","-","-","\n">> \o texts[Len(texts)]

\* C21: the prompt of the API request and the cache key of a synthesizeSummary
\* call are built from the first 50 texts alone; a call that follows an
\* API-answered call with the same category and the same first 50 texts gets
\* that call's summary from the cache, whatever the lists hold beyond the
\* 50th entry.
C21_FirstFiftyTexts ==
  (llmCall.fn = "synthesizeSummary" /\ llmCall.texts # <<>>) =>
    /\ llmCall.key = << "synthesize", llmCall.category, Joined(FirstFifty(llmCall.texts)) >>
    /\ llmCall.apiCalls = 1 => llmCall.prompt = Joined(FirstFifty(llmCall.texts))
    /\ ( /\ llmPc = "returned"
         /\ llmPrev.call.fn = "synthesizeSummary"
         /\ llmPrev.call.outcome = "resolved"
         /\ llmPrev.call.category = llmCall.category
         /\ FirstFifty(llmPrev.call.texts) = FirstFifty(llmCall.texts) ) =>
         /\ llmResult = [summary |-> llmPrev.result.summary, cached |-> TRUE]
         /\ llmCall.apiCalls = 0

\* A list of 52 texts has been answered from the cache entry that a list of
\* 51 texts with the same first 50 created.
C21_Witness ==
  /\ llmPc = "returned"
  /\ llmCall.fn = "synthesizeSummary"
  /\ Len(llmCall.texts) = 52
  /\ llmPrev.call.fn = "synthesizeSummary"
  /\ Len(llmPrev.call.texts) = 51
  /\ llmPrev.call.outcome = "resolved"
  /\ llmResult = [summary |-> <<"S","1">>, cached |-> TRUE]

(***************************************************************************)
(* Properties of the ProgressTracker.                                      *)
(***************************************************************************)
TrkIs(i, op, sessionId) ==
  /\ trkLog[i].op = op
  /\ trkLog[i].sessionId = sessionId

\* The position in the history of the latest addClient for a session id, 0
\* when there is none.
LatestAdd(sessionId) ==
  LET adds == { i \in 1..Len(trkLog) : TrkIs(i, "addClient", sessionId) }
  IN IF adds = {} THEN 0 ELSE CHOOSE i \in adds : \A j \in adds : j <= i

\* The latest addClient for the session id has no removeClient after it.
StillAdded(sessionId) ==
  /\ LatestAdd(sessionId) > 0
  /\ \A j \in (LatestAdd(sessionId) + 1)..Len(trkLog) :
       ~TrkIs(j, "removeClient", sessionId)

TrkLatest(op) == trkCall # [op |-> "none"] /\ trkCall.call.op = op

\* C22: after any sequence of addClient and removeClient calls the registry
\* holds, for each session id whose latest addClient has no later
\* removeClient, the response of that addClient and nothing else; hasClient
\* and getClientCount answer accordingly; adding a registered id replaces the
\* client and keeps the count; removing an unregistered id changes nothing
\* and returns.
C22_Registry ==
  /\ DOMAIN clients = { id \in SessionIds : StillAdded(id) }
  /\ \A id \in DOMAIN clients :
       clients[id] = [res |-> trkLog[LatestAdd(id)].res, sessionId |-> id]
  /\ TrkLatest("hasClient") =>
       trkCall.call.result = StillAdded(trkCall.call.sessionId)
  /\ TrkLatest("getClientCount") =>
       trkCall.call.result = Cardinality({ id \in SessionIds : StillAdded(id) })
  /\ ( TrkLatest("addClient")
       /\ trkCall.call.sessionId \in DOMAIN trkCall.clientsBefore ) =>
       /\ clients[trkCall.call.sessionId].res = trkCall.call.res
       /\ Cardinality(DOMAIN clients) = Cardinality(DOMAIN trkCall.clientsBefore)
  /\ ( TrkLatest("removeClient")
       /\ trkCall.call.sessionId \notin DOMAIN trkCall.clientsBefore ) =>
       /\ clients = trkCall.clientsBefore
       /\ trkWritten = trkCall.writtenBefore
       /\ trkCall.outcome = "returned"

\* getClientCount has answered 1 after a session id was added, added again
\* with another response and a second id was added and removed.
C22_Witness ==
  /\ TrkLatest("getClientCount")
  /\ trkCall.call.result = 1
  /\ \E i, j \in 1..Len(trkLog) :
       /\ i < j
       /\ TrkIs(i, "addClient", "session-1")
       /\ TrkIs(j, "addClient", "session-1")
       /\ trkLog[i].res # trkLog[j].res
  /\ clients["session-1"].res = "res2"

\* The frames of the sample events, as they are written to the stream.
ExpectedFrame(e) ==
  IF e.progress = 50
  THEN <<"d","a","t","a",":"," ","{","\"","s","t","a","g","e","\"",":","\"","f","e","t","c","h","i","n","g","\"",",","\"","p","r","o","g","r","e","s","s","\"",":","5","0",",","\"","m","e","s","s","a","g","e","\"",":","\"","H","a","l","f","w","a","y"," ","d","o","n","e","\"","}","\n","\n">>
  ELSE IF e.progress = 75
  THEN <<"d","a","t","a",":"," ","{","\"","s","t","a","g","e","\"",":","\"","a","g","g","r","e","g","a","t","i","n","g","\"",",","\"","p","r","o","g","r","e","s","s","\"",":","7","5",",","\"","m","e","s","s","a","g","e","\"",":","\"","P","r","o","c","e","s","s","i","n","g"," ","d","a","t","a","\"","}","\n","\n">>
  ELSE <<"d","a","t","a",":"," ","{","\"","s","t","a","g","e","\"",":","\"","c","o","m","p","l","e","t","e","\"",",","\"","p","r","o","g","r","e","s","s","\"",":","1","0","0",",","\"","m","e","s","s","a","g","e","\"",":","\"","S","a","y"," ","\\","\"","d","o","n","e","\\","\"","\"","}","\n","\n">>

\* C23: sendProgress writes exactly one SSE frame, data: {"stage":..,
\* "progress":..,"message":..} followed by an empty line, to the response
\* registered under the session id and to no other response; it writes
\* nothing when no client is registered under the id; the registry is the
\* same after the call.
C23_SendProgress ==
  TrkLatest("sendProgress") =>
    LET id == trkCall.call.sessionId
        before == trkCall.clientsBefore
    IN /\ clients = before
       /\ id \in DOMAIN before =>
            trkWritten = [trkCall.writtenBefore EXCEPT ![before[id].res] =
                            Append(@, ExpectedFrame(trkCall.call.event))]
       /\ id \notin DOMAIN before => trkWritten = trkCall.writtenBefore

\* A frame has been sent to one of two clients registered with different
\* responses.
C23_Witness ==
  /\ TrkLatest("sendProgress")
  /\ DOMAIN trkCall.clientsBefore = SessionIds
  /\ trkCall.clientsBefore["session-1"].res # trkCall.clientsBefore["session-2"].res
  /\ trkCall.call.event.progress = 100
  /\ trkWritten # trkCall.writtenBefore

(***************************************************************************)
(* Properties of the routes.                                               *)
(***************************************************************************)
TraceOf(kind) == SelectSeq(reqTrace, LAMBDA e : e.kind = kind)

Requested == req # NoRequest

\* The body carries a date that is a string.
HasDateString == Has(req.body, "date")

\* YYYY-MM-DD: four digits, a hyphen, two digits, a hyphen, two digits.
IsYmd(d) ==
  /\ Len(d) = 10
  /\ \A i \in 1..10 :
       IF i \in {5, 8} THEN d[i] = "-"
       ELSE d[i] \in {"0","1","2","3","4","5","6","7","8","9"}

\* C24: POST /api/reports sends exactly one HTTP response per request, none
\* before the handler is through: 400 with error 'Invalid request' when the
\* body fails the schema, 400 {error: 'Invalid date format. Use YYYY-MM-DD'}
\* when the date is not YYYY-MM-DD, 500 {error: 'Failed to fetch and process
\* reports'} when the fetch fails, otherwise 200 with date, aggregatedData
\* and the three summaries; in the two 400 cases no fetch is started and no
\* progress event is sent.
C24_OneResponse ==
  Requested =>
    LET rs == TraceOf("response")
    IN /\ reqPc # "done" => rs = <<>>
       /\ reqPc = "done" =>
            /\ Len(rs) = 1
            /\ reqTrace[Len(reqTrace)] = rs[1]
            /\ IF ~HasDateString
               THEN /\ rs[1].status = 400
                    /\ rs[1].body.error = <<"I","n","v","a","l","i","d"," ","r","e","q","u","e","s","t">>
                    /\ TraceOf("fetch") = <<>> /\ TraceOf("progress") = <<>>
               ELSE IF ~IsYmd(req.body.date)
               THEN /\ rs[1].status = 400
                    /\ rs[1].body = [error |-> <<"I","n","v","a","l","i","d"," ","d","a","t","e"," ","f","o","r","m","a","t","."," ","U","s","e"," ","Y","Y","Y","Y","-","M","M","-","D","D">>]
                    /\ TraceOf("fetch") = <<>> /\ TraceOf("progress") = <<>>
               ELSE /\ Len(TraceOf("fetch")) = 1
                    /\ IF Has(reqData, "fetchError")
                       THEN /\ rs[1].status = 500
                            /\ rs[1].body = [error |-> <<"F","a","i","l","e","d"," ","t","o"," ","f","e","t","c","h"," ","a","n","d"," ","p","r","o","c","e","s","s"," ","r","e","p","o","r","t","s">>]
                       ELSE /\ rs[1].status = 200
                            /\ DOMAIN rs[1].body = {"date", "aggregatedData", "summaries"}
                            /\ rs[1].body.date = req.body.date
                            /\ rs[1].body.aggregatedData = reqData.aggregatedData
                            /\ DOMAIN rs[1].body.summaries =
                                 {"observationSummary", "snowpackSummary", "weatherSummary"}
                            /\ Len(TraceOf("summary")) = 3

\* A request with a registered session id and a date with a trailing line
\* feed has been answered with 400.
C24_Witness ==
  /\ reqPc = "done"
  /\ req.sessionId \in DOMAIN progressClients
  /\ HasDateString
  /\ Len(req.body.date) = 11
  /\ TraceOf("response")[1].status = 400

\* How the frame of each progress event begins, in the order of the handler.
ExpectedEvents ==
  << <<"d","a","t","a",":"," ","{","\"","s","t","a","g","e","\"",":","\"","f","e","t","c","h","i","n","g","\"",",","\"","p","r","o","g","r","e","s","s","\"",":","1","0",",","\"","m","e","s","s","a","g","e","\"",":","\"">>,
     <<"d","a","t","a",":"," ","{","\"","s","t","a","g","e","\"",":","\"","f","e","t","c","h","i","n","g","\"",",","\"","p","r","o","g","r","e","s","s","\"",":","2","5",",","\"","m","e","s","s","a","g","e","\"",":","\"">>,
     <<"d","a","t","a",":"," ","{","\"","s","t","a","g","e","\"",":","\"","a","g","g","r","e","g","a","t","i","n","g","\"",",","\"","p","r","o","g","r","e","s","s","\"",":","3","0",",","\"","m","e","s","s","a","g","e","\"",":","\"">>,
     <<"d","a","t","a",":"," ","{","\"","s","t","a","g","e","\"",":","\"","a","g","g","r","e","g","a","t","i","n","g","\"",",","\"","p","r","o","g","r","e","s","s","\"",":","4","0",",","\"","m","e","s","s","a","g","e","\"",":","\"">>,
     <<"d","a","t","a",":"," ","{","\"","s","t","a","g","e","\"",":","\"","s","y","n","t","h","e","s","i","z","i","n","g","\"",",","\"","p","r","o","g","r","e","s","s","\"",":","4","5",",","\"","m","e","s","s","a","g","e","\"",":","\"">>,
     <<"d","a","t","a",":"," ","{","\"","s","t","a","g","e","\"",":","\"","s","y","n","t","h","e","s","i","z","i","n","g","\"",",","\"","p","r","o","g","r","e","s","s","\"",":","6","0",",","\"","m","e","s","s","a","g","e","\"",":","\"">>,
     <<"d","a","t","a",":"," ","{","\"","s","t","a","g","e","\"",":","\"","s","y","n","t","h","e","s","i","z","i","n","g","\"",",","\"","p","r","o","g","r","e","s","s","\"",":","6","5",",","\"","m","e","s","s","a","g","e","\"",":","\"">>,
     <<"d","a","t","a",":"," ","{","\"","s","t","a","g","e","\"",":","\"","s","y","n","t","h","e","s","i","z","i","n","g","\"",",","\"","p","r","o","g","r","e","s","s","\"",":","8","0",",","\"","m","e","s","s","a","g","e","\"",":","\"">>,
     <<"d","a","t","a",":"," ","{","\"","s","t","a","g","e","\"",":","\"","s","y","n","t","h","e","s","i","z","i","n","g","\"",",","\"","p","r","o","g","r","e","s","s","\"",":","8","5",",","\"","m","e","s","s","a","g","e","\"",":","\"">>,
     <<"d","a","t","a",":"," ","{","\"","s","t","a","g","e","\"",":","\"","s","y","n","t","h","e","s","i","z","i","n","g","\"",",","\"","p","r","o","g","r","e","s","s","\"",":","9","5",",","\"","m","e","s","s","a","g","e","\"",":","\"">>,
     <<"d","a","t","a",":"," ","{","\"","s","t","a","g","e","\"",":","\"","c","o","m","p","l","e","t","e","\"",",","\"","p","r","o","g","r","e","s","s","\"",":","1","0","0",",","\"","m","e","s","s","a","g","e","\"",":","\"">> >>

\* The number of events due when the handler is at a given await or through.
EventsDue ==
  IF reqPc = "fetching" THEN 1
  ELSE IF reqPc = "synthObservation" THEN 5
  ELSE IF reqPc = "synthSnowpack" THEN 7
  ELSE IF reqPc = "synthWeather" THEN 9
  ELSE IF TraceOf("response")[1].status = 200 THEN 11
  ELSE IF TraceOf("response")[1].status = 500 THEN 1
  ELSE 0

IsComplete(e) == e.kind = "progress" /\ StartsWith(e.frame, ExpectedEvents[11])

\* C25: for a request with a session id that stays registered the progress
\* events are, in this order, fetching 10, fetching 25, aggregating 30,
\* aggregating 40, synthesizing 45, 60, 65, 80, 85, 95, complete 100, as far
\* as the handler has come; 'complete' comes after the three summaries and
\* before the HTTP response; a failed fetch leaves the event 10 alone; a
\* request without a session id emits no event.
C25_ProgressOrder ==
  Requested =>
    LET ps == TraceOf("progress")
    IN /\ req.registered =>
            /\ Len(ps) = EventsDue
            /\ \A i \in 1..Len(ps) : StartsWith(ps[i].frame, ExpectedEvents[i])
       /\ req.sessionId \in {NoHeader, ""} => ps = <<>>
       /\ \A i \in 1..Len(reqTrace) :
            IsComplete(reqTrace[i]) =>
              /\ \A c \in {"Observation", "Snowpack", "Weather"} :
                   \E j \in 1..(i - 1) :
                     reqTrace[j] = [kind |-> "summary", category |-> c]
              /\ \A j \in 1..Len(reqTrace) :
                   reqTrace[j].kind = "response" => i < j
       /\ Has(reqData, "fetchError") =>
            /\ Len(ps) <= 1
            /\ \A i \in 1..Len(reqTrace) : ~IsComplete(reqTrace[i])

\* A request whose session id stayed registered has been answered after
\* eleven events, one of them for a summary from the cache.
C25_Witness ==
  /\ reqPc = "done"
  /\ req.registered
  /\ Len(TraceOf("progress")) = 11
  /\ reqData.obsResult.cached
  /\ TraceOf("response")[1].status = 200

\* Some connection opened for the session id is still open.
HasOpenConnection(sessionId) ==
  \E c \in DOMAIN conns : conns[c].sessionId = sessionId /\ conns[c].open

\* C26: after any interleaving of SSE connects and closes a session id is
\* registered exactly when some connection opened for it is still open.
C26_RegisteredIffOpen ==
  \A sessionId \in SessionIds :
    sessionId \in DOMAIN progressClients <=> HasOpenConnection(sessionId)

(***************************************************************************)
(* The fallback summary.                                                   *)
(***************************************************************************)
\* 'Unable to synthesize <category> summary.' for the categories of the model.
FallbackText(category) ==
  IF category = <<"S","n","o","w","p","a","c","k">> THEN <<"U","n","a","b","l","e"," ","t","o"," ","s","y","n","t","h","e","s","i","z","e"," ","s","n","o","w","p","a","c","k"," ","s","u","m","m","a","r","y",".">>
  ELSE IF category = <<"W","e","a","t","h","e","r">> THEN <<"U","n","a","b","l","e"," ","t","o"," ","s","y","n","t","h","e","s","i","z","e"," ","w","e","a","t","h","e","r"," ","s","u","m","m","a","r","y",".">>
  ELSE <<"U","n","a","b","l","e"," ","t","o"," ","s","y","n","t","h","e","s","i","z","e"," ","o","b","s","e","r","v","a","t","i","o","n"," ","s","u","m","m","a","r","y",".">>

\* The call was answered by the API with a null or an empty content.
ResolvedEmpty(call) ==
  /\ call.fn = "synthesizeSummary"
  /\ call.outcome = "resolved"
  /\ call.noContent

\* C27: when the API resolves with a null or an empty content,
\* synthesizeSummary returns the fallback text with cached = false and has
\* stored it; the next call with the same category and texts within the TTL
\* returns the fallback with cached = true and no API call; every entry of
\* the cache is a non-empty string, and a call goes to the API only when the
\* cache holds no unexpired entry under its key.
C27_FallbackCached ==
  /\ (llmPc = "returned" /\ ResolvedEmpty(llmCall)) =>
       /\ llmResult = [summary |-> FallbackText(llmCall.category), cached |-> FALSE]
       /\ llmCall.key \in DOMAIN cache
       /\ cache[llmCall.key].response = FallbackText(llmCall.category)
  /\ ( /\ SynthReturned
       /\ SamePayloadBefore
       /\ ResolvedEmpty(llmPrev.call)
       /\ llmCall.startedAt - llmPrev.call.endedAt < TtlMs ) =>
       /\ llmResult = [summary |-> FallbackText(llmCall.category), cached |-> TRUE]
       /\ llmCall.apiCalls = 0
  /\ \A h \in DOMAIN cache :
       /\ cache[h].response # Null
       /\ Len(cache[h].response) > 0
  /\ (llmCall.fn = "synthesizeSummary" /\ llmCall.apiCalls = 1) => ~HeldFresh(llmCall)

\* The fallback text has been returned from the cache after a call that the
\* API answered with a null or an empty content.
C27_Witness ==
  /\ SynthReturned
  /\ SamePayloadBefore
  /\ ResolvedEmpty(llmPrev.call)
  /\ llmCall.outcome = "hit"
  /\ llmResult = [summary |-> FallbackText(llmCall.category), cached |-> TRUE]

(***************************************************************************)
(* Properties of the Home page.                                            *)
(***************************************************************************)
\* The history is a list of pairs: a user message followed by the assistant
\* message of the same chat request.
PairedHistory ==
  /\ Len(chatMessages) % 2 = 0
  /\ \A i \in 1..Len(chatMessages) :
       IF i % 2 = 1
       THEN chatMessages[i].role = "user"
       ELSE /\ chatMessages[i].role = "assistant"
            /\ chatMessages[i].context = chatMessages[i - 1].context

\* C28: under any interleaving of report fetches and chat requests the chat
\* history holds only user/assistant pairs, user first, whose chat request
\* was sent with the report on display as context; while no report has been
\* loaded it is empty.
C28_HistoryOfDisplayedReport ==
  /\ PairedHistory
  /\ \A i \in 1..Len(chatMessages) : chatMessages[i].context = reportData
  /\ reportData = NullObject => chatMessages = <<>>

(***************************************************************************)
(* aggregateReports over parts of the list.                                *)
(***************************************************************************)
\* The counters of two snapshots added, counter by counter.
PlusSnapshots(a, b) ==
  [ totalReports |-> a.totalReports + b.totalReports,
    reportsWithAvalanches |-> a.reportsWithAvalanches + b.reportsWithAvalanches,
    totalAvalanches |-> a.totalAvalanches + b.totalAvalanches,
    avalanchesByElevation |->
      [k \in DOMAIN a.avalanchesByElevation |->
         a.avalanchesByElevation[k] + b.avalanchesByElevation[k]],
    avalanchesByAspect |->
      [k \in DOMAIN a.avalanchesByAspect |->
         a.avalanchesByAspect[k] + b.avalanchesByAspect[k]],
    crackingCounts |->
      [k \in DOMAIN a.crackingCounts |-> a.crackingCounts[k] + b.crackingCounts[k]],
    collapsingCounts |->
      [k \in DOMAIN a.collapsingCounts |->
         a.collapsingCounts[k] + b.collapsingCounts[k]] ]

\* The sum of the snapshots of the one-report lists of rs.
RECURSIVE SumOfSingles(_)
SumOfSingles(rs) ==
  IF rs = <<>>
  THEN [ totalReports |-> 0, reportsWithAvalanches |-> 0, totalAvalanches |-> 0,
         avalanchesByElevation |->
           [k \in {"aboveTreeline", "nearTreeline", "belowTreeline"} |-> 0],
         avalanchesByAspect |->
           [k \in {"N", "NE", "E", "SE", "S", "SW", "W", "NW"} |-> 0],
         crackingCounts |->
           [k \in {"None", "Minor", "Moderate", "Major", "Severe"} |-> 0],
         collapsingCounts |->
           [k \in {"None", "Minor", "Moderate", "Major", "Severe"} |-> 0] ]
  ELSE PlusSnapshots(aggregateReports(<< Head(rs) >>), SumOfSingles(Tail(rs)))

\* C29: aggregateReports is additive over concatenation: for every split of
\* the list into A and B every counter of the snapshot of the whole list is
\* the sum of that counter in the snapshots of A and of B; what the reports
\* folded in so far have added is the sum of what each adds when aggregated
\* alone.
C29_Additive ==
  /\ aggPc = "done" =>
       \A k \in 0..Len(reports) :
         aggregated =
           PlusSnapshots(aggregateReports(SubSeq(reports, 1, k)),
                         aggregateReports(SubSeq(reports, k + 1, Len(reports))))
  /\ AggRunning =>
       [aggregated EXCEPT !.totalReports = aggIdx] = SumOfSingles(Folded)

\* A list of two reports has been aggregated, each of which adds avalanches
\* and the second of which adds to an elevation and an aspect bucket.
C29_Witness ==
  /\ aggPc = "done"
  /\ Len(reports) = 2
  /\ aggregateReports(<< reports[1] >>).totalAvalanches = 2
  /\ aggregateReports(<< reports[2] >>).avalanchesByAspect["NW"] = 1
  /\ aggregated.totalAvalanches = 4
  /\ aggregated.crackingCounts["None"] = 1

AllCounters(agg) ==
  { agg.totalReports, agg.reportsWithAvalanches, agg.totalAvalanches }
    \cup { agg.avalanchesByElevation[k] : k \in DOMAIN agg.avalanchesByElevation }
    \cup { agg.avalanchesByAspect[k] : k \in DOMAIN agg.avalanchesByAspect }
    \cup { agg.crackingCounts[k] : k \in DOMAIN agg.crackingCounts }
    \cup { agg.collapsingCounts[k] : k \in DOMAIN agg.collapsingCounts }

\* Every report of the list has an absent or a non-negative
\* avalanche_observations_count.
ListCountsNonNegative ==
  \A i \in 1..Len(reports) :
     "avalanche_observations_count" \in DOMAIN reports[i]
       => reports[i].avalanche_observations_count >= 0

\* C30: for a report list whose avalanche_observations_count values are
\* absent or non-negative, after each report folded in: 0 <=
\* reportsWithAvalanches <= totalReports, reportsWithAvalanches <=
\* totalAvalanches, every counter is a non-negative integer and totalReports
\* is the length of the list.
C30_CounterBounds ==
  (AggRunning /\ ListCountsNonNegative) =>
    /\ 0 <= aggregated.reportsWithAvalanches
    /\ aggregated.reportsWithAvalanches <= aggregated.totalReports
    /\ aggregated.reportsWithAvalanches <= aggregated.totalAvalanches
    /\ \A c \in AllCounters(aggregated) : c \in Nat
    /\ aggregated.totalReports = Len(reports)

\* The loop has folded in a report without avalanches and stands before a
\* second report, with non-negative counts throughout.
C30_Witness ==
  /\ aggPc = "loop"
  /\ ListCountsNonNegative
  /\ Len(reports) = 2
  /\ aggIdx = 1
  /\ aggregated.reportsWithAvalanches = 0
  /\ AvalancheCount(reports[2]) = 2

====
